---- MODULE Spec2Model ----
(***************************************************************************)
(* Derivation engine of the oh-my-opencode dashboard: session resolution,  *)
(* main session view, background-task correlation and the path guard, for  *)
(* the files backend and the sqlite backend.                                *)
(*                                                                         *)
(* Storage is modelled as three tables (sessions, messages, parts), each a *)
(* sequence in the order storage enumerates it (sqlite: rowid order,       *)
(* files: directory order, which is also the order in which the records    *)
(* were written).  Every derivation is an operator over these tables; an   *)
(* action applies one derivation and stores what it returned.              *)
(***************************************************************************)
EXTENDS Integers, Sequences, FiniteSets, TLC

VARIABLES
    sessions,   \* session table: sequence of session records
    messages,   \* message table: sequence of message records (id = position)
    parts,      \* part table: sequence of part records
    nowMs,      \* injected wall clock (opts.nowMs)
    fsys,       \* file system seen by the path guard
    call,       \* arguments of the derivation under way
    result,     \* what the derivations returned
    pc          \* position of the caller

vars == <<sessions, messages, parts, nowMs, fsys, call, result, pc>>

-----------------------------------------------------------------------------
(* Values shared by all components *)

\* absent JSON number (undefined / null)
NoTime == 0 - 1

\* absent id (null)
NoId == 1 - 1

\* absent string (undefined / null)
NoStr == "<none>"

Roles == {"user", "assistant"}

ToolStatuses == {"pending", "running", "completed", "error"}

InFlight == {"pending", "running"}

Min(a, b) == IF a <= b THEN a ELSE b

Abs(x) == IF x < 0 THEN 0 - x ELSE x

Range(s) == {s[i] : i \in 1..Len(s)}

SeqsUpTo(S, n) == UNION {[1..k -> S] : k \in 0..n}

Reverse(s) == [i \in 1..Len(s) |-> s[Len(s) + 1 - i]]

Take(s, n) == SubSeq(s, 1, Min(n, Len(s)))

\* Array.prototype.sort with a comparator: Before(a, b) is "compare(a, b) < 0".
\* The sort is stable: elements the comparator does not order keep their order.
ArraySort(s, Before(_, _)) ==
    LET n == Len(s)
        rank == [i \in 1..n |-> Cardinality({j \in 1..n :
                        \/ Before(s[j], s[i])
                        \/ (~Before(s[i], s[j]) /\ j < i)})]
        Placed(ranks) ==
            SubSeq([k \in 1..n |-> s[CHOOSE i \in 1..n : ranks[i] = k - 1]], 1, n)
    IN  Placed(SubSeq(rank, 1, n))

\* String(a).localeCompare(String(b)) < 0 on identifiers; identifiers are
\* numbered in their collation order.
LocaleLess(a, b) == a < b

-----------------------------------------------------------------------------
(* Main session view *)

\* freshness window of the busy/idle rule, in ms
FreshMs == 15000

\* number of recent messages a view reads
RecentLimit == 200

NoTool == [tool |-> NoStr, status |-> NoStr]

\* meta.time?.created ?? 0
CreatedOrZero(m) == IF m.created = NoTime THEN 0 ELSE m.created

\* rows of one message, in part-file name order / (time_created, id) order
PartsOfMessage(allParts, messageID) ==
    SelectSeq(allParts, LAMBDA p : p.messageID = messageID)

\* message files of one session directory, in the order they were written
MessagesOfSession(allMessages, sessionID) ==
    SelectSeq(allMessages, LAMBDA m : m.sessionID = sessionID)

NoMsg == [id |-> NoId]

\* readMostRecentMessageMeta: the newest message of a session directory, by
\* (time.created ?? 0, id); files that do not parse are skipped.
readMostRecentMessageMeta(messageDir, maxMessages) ==
    LET ranked == Take(Reverse(messageDir), maxMessages)
        parsed == SelectSeq(ranked, LAMBDA m : m.json)
        Better(a, b) == \/ CreatedOrZero(a) > CreatedOrZero(b)
                        \/ (CreatedOrZero(a) = CreatedOrZero(b) /\ a.id > b.id)
    IN  IF parsed = <<>> THEN NoMsg
        ELSE CHOOSE m \in Range(parsed) :
                \A o \in Range(parsed) : o = m \/ Better(m, o)

\* readRecentMessageMetas of session.ts: the (up to maxMessages) most recently
\* written message files, sorted by time.created descending, then id descending.
readRecentMessageMetas(messageDir, maxMessages) ==
    LET ranked == Take(Reverse(messageDir), maxMessages)
        parsed == SelectSeq(ranked, LAMBDA m : m.json)
    IN  ArraySort(parsed, LAMBDA a, b :
            \/ CreatedOrZero(a) > CreatedOrZero(b)
            \/ (CreatedOrZero(a) = CreatedOrZero(b) /\ LocaleLess(b.id, a.id)))

\* readLastToolPart: the last part file of the message (by file name) that
\* is a tool part, whatever its status.
readLastToolPart(allParts, messageID) ==
    LET files == PartsOfMessage(allParts, messageID)
        tools == SelectSeq(files, LAMBDA p : p.json /\ p.type = "tool" /\ p.tool # NoStr)
    IN  IF tools = <<>> THEN NoTool
        ELSE [tool   |-> tools[Len(tools)].tool,
              status |-> IF tools[Len(tools)].status = NoStr
                         THEN "unknown" ELSE tools[Len(tools)].status]

\* getMainSessionView (files backend)
getMainSessionView(allMessages, allParts, sessionId, title, now) ==
    LET messageDir  == MessagesOfSession(allMessages, sessionId)
        recent      == readMostRecentMessageMeta(messageDir, RecentLimit)
        lastUpdated == IF recent = NoMsg THEN NoTime ELSE recent.created
        recentMetas == readRecentMessageMetas(messageDir, RecentLimit)
        hits        == SelectSeq(recentMetas, LAMBDA m :
                          readLastToolPart(allParts, m.id).status \in InFlight)
        activeTool  == IF hits = <<>> THEN NoTool
                       ELSE readLastToolPart(allParts, hits[1].id)
    IN  [agent        |-> IF recent = NoMsg \/ recent.agent = NoStr
                          THEN "unknown" ELSE recent.agent,
         currentTool  |-> activeTool.tool,
         lastUpdated  |-> lastUpdated,
         sessionLabel |-> IF title = NoStr THEN sessionId ELSE title,
         status       |-> IF activeTool.status \in InFlight THEN "running_tool"
                          ELSE IF lastUpdated # NoTime
                               THEN (IF now - lastUpdated <= FreshMs
                                     THEN "busy" ELSE "idle")
                               ELSE "unknown"]

\* readRecentMessageMetasSqlite: the query orders the session's rows by the
\* time_created column (then id) and cuts them at limit; the rows are then
\* sanitised, time.created is taken from the JSON payload (the column is the
\* fallback) and the survivors are sorted by it, then by id, descending.
readRecentMessageMetasSqlite(allMessages, sessionId, limit) ==
    LET ordered == ArraySort(MessagesOfSession(allMessages, sessionId),
                       LAMBDA a, b : \/ a.rowCreated > b.rowCreated
                                     \/ (a.rowCreated = b.rowCreated /\ a.id > b.id))
        fetched == Take(ordered, limit)
        kept    == SelectSeq(fetched, LAMBDA m : m.json /\ m.role \in Roles)
        Row(m)  == [m EXCEPT !.created = IF m.created # NoTime THEN m.created
                                         ELSE m.rowCreated]
        rows    == [i \in 1..Len(kept) |-> Row(kept[i])]
    IN  ArraySort(rows, LAMBDA a, b :
            \/ a.created > b.created
            \/ (a.created = b.created /\ LocaleLess(b.id, a.id)))

\* readToolPartsForMessagesSqlite: the part rows of the given messages ordered
\* by (message_id, time_created, id), sanitised.
readToolPartsForMessagesSqlite(allParts, messageIds) ==
    LET wanted  == SelectSeq(allParts, LAMBDA p : p.messageID \in messageIds)
        ordered == ArraySort(wanted, LAMBDA a, b : a.messageID < b.messageID)
    IN  SelectSeq(ordered, LAMBDA p :
            /\ p.json
            /\ p.type = "tool"
            /\ p.callID # NoId
            /\ p.tool # NoStr
            /\ p.status \in ToolStatuses
            /\ p.hasInput)

\* readSessionMessagesAndParts
readSessionMessagesAndParts(allMessages, allParts, sessionId, limit) ==
    LET WithParts(metas) ==
            [metas |-> metas,
             parts |-> readToolPartsForMessagesSqlite(allParts,
                           {metas[i].id : i \in 1..Len(metas)})]
    IN  WithParts(readRecentMessageMetasSqlite(allMessages, sessionId, limit))

\* pickLatestModelString: "providerID/modelID" of the first message, newest
\* first, that carries both.
pickLatestModelString(metas) ==
    LET having == SelectSeq(metas, LAMBDA m : m.providerID # NoStr /\ m.modelID # NoStr)
    IN  IF having = <<>> THEN <<>> ELSE <<having[1].providerID, "/", having[1].modelID>>

\* the freshness rule with the boundary excluded
FreshnessStatusStrict(now, lastUpdated) ==
    IF now - lastUpdated < FreshMs THEN "busy" ELSE "idle"

\* nowMs - lastUpdated <= 15_000 ? "busy" : "idle"
FreshnessStatus(now, lastUpdated) ==
    IF now - lastUpdated <= FreshMs THEN "busy" ELSE "idle"

\* getMainSessionViewSqlite
getMainSessionViewSqlite(allMessages, allParts, sessionId, title, now) ==
    LET \* last in-flight part of a message, scanning its parts from the end
        ActiveOf(partRows, m) ==
            LET own == SelectSeq(PartsOfMessage(partRows, m.id),
                           LAMBDA p : p.status \in InFlight)
            IN  IF own = <<>> THEN NoTool
                ELSE [tool |-> own[Len(own)].tool, status |-> own[Len(own)].status]
        View(recent, lastUpdated, activeTool, currentModel) ==
            [agent        |-> IF recent = NoMsg \/ recent.agent = NoStr
                              THEN "unknown" ELSE recent.agent,
             currentTool  |-> activeTool.tool,
             currentModel |-> currentModel,
             lastUpdated  |-> lastUpdated,
             sessionLabel |-> IF title = NoStr THEN sessionId ELSE title,
             status       |-> IF activeTool.status \in InFlight THEN "running_tool"
                              ELSE IF /\ recent # NoMsg
                                      /\ recent.role = "assistant"
                                      /\ recent.created # NoTime
                                      /\ recent.completed = NoTime
                                   THEN "thinking"
                              ELSE IF lastUpdated # NoTime
                                   THEN FreshnessStatus(now, lastUpdated)
                                   ELSE "unknown"]
        ViewOfHits(session, hits) ==
            View(IF session.metas = <<>> THEN NoMsg ELSE session.metas[1],
                 IF session.metas = <<>> THEN NoTime ELSE session.metas[1].created,
                 IF hits = <<>> THEN NoTool ELSE ActiveOf(session.parts, hits[1]),
                 pickLatestModelString(session.metas))
        ViewOfSession(session) ==
            ViewOfHits(session, SelectSeq(session.metas,
                                    LAMBDA m : ActiveOf(session.parts, m) # NoTool))
    IN  ViewOfSession(readSessionMessagesAndParts(allMessages, allParts, sessionId,
                                                  RecentLimit))

-----------------------------------------------------------------------------
(* Specification of the main session view: a stored session, then the two *)
(* backends' views of it.                                                   *)

\* most messages a stored session holds
MaxMessages == 2

\* most tool parts a stored session holds
MaxParts == 2

\* the session the views are asked for
MainId == NoId + 1

ViewTimes == {1000, 2000}

ViewNows == {3000, 17000, 17001}

ToolOfSlot == <<"grep", "bash", "task", "read">>

NoInput == [run_in_background |-> NoStr, description |-> <<>>, subagent_type |-> <<>>,
            category |-> <<>>, resume |-> NoId, other |-> NoStr]

\* a well-formed message of the runtime: a user turn, an assistant turn
\* that is still streaming, or a completed assistant turn
StoredMessage(id, sessionID, kind, created) ==
    [id         |-> id,
     sessionID  |-> sessionID,
     json       |-> TRUE,
     role       |-> IF kind = "user" THEN "user" ELSE "assistant",
     created    |-> created,
     rowCreated |-> created,
     completed  |-> IF kind = "done" THEN created + 500 ELSE NoTime,
     agent      |-> IF kind = "user" THEN NoStr ELSE "sisyphus",
     providerID |-> IF kind = "user" THEN NoStr ELSE "openai",
     modelID    |-> IF kind = "user" THEN NoStr ELSE "gpt"]

MessageKinds == {"user", "streaming", "done"}

\* a well-formed tool part
StoredPart(slot, messageID, status) ==
    [messageID |-> messageID,
     json      |-> TRUE,
     type      |-> "tool",
     callID    |-> slot,
     tool      |-> ToolOfSlot[((slot - 1) % Len(ToolOfSlot)) + 1],
     status    |-> status,
     hasInput  |-> TRUE,
     input     |-> NoInput,
     start     |-> NoTime,
     metadataSessionId |-> NoId,
     output    |-> NoStr,
     error     |-> NoStr]

\* message ids are time-sortable: a later id is not created earlier
ViewMessageTables ==
    UNION {{[i \in 1..n |-> StoredMessage(i, MainId, k[i], t[i])] :
                k \in [1..n -> MessageKinds],
                t \in {f \in [1..n -> ViewTimes] : \A i \in 1..(n - 1) : f[i] <= f[i + 1]}} :
           n \in 0..MaxMessages}

\* part tables are kept in message order, as the part query returns them
ViewPartTables(n) ==
    UNION {{[i \in 1..j |-> StoredPart(i, m[i], st[i])] :
                m \in {f \in [1..j -> 1..n] : \A i \in 1..(j - 1) : f[i] <= f[i + 1]},
                st \in [1..j -> ToolStatuses]} :
           j \in 0..(IF n = 0 THEN 0 ELSE MaxParts)}

NoView == [status |-> "<not asked>"]

InitView ==
    /\ sessions = <<>>
    /\ messages \in ViewMessageTables
    /\ parts \in ViewPartTables(Len(messages))
    /\ nowMs \in ViewNows
    /\ fsys = <<>>
    /\ call = [sessionId |-> MainId, title |-> NoStr]
    /\ result = [files |-> NoView, sqlite |-> NoView]
    /\ pc = "stored"

GetMainSessionView ==
    /\ pc = "stored"
    /\ result' = [result EXCEPT !.files =
                     getMainSessionView(messages, parts, call.sessionId, call.title, nowMs)]
    /\ pc' = "files_viewed"
    /\ UNCHANGED <<sessions, messages, parts, nowMs, fsys, call>>

GetMainSessionViewSqlite ==
    /\ pc = "files_viewed"
    /\ result' = [result EXCEPT !.sqlite =
                     getMainSessionViewSqlite(messages, parts, call.sessionId, call.title, nowMs)]
    /\ pc' = "viewed"
    /\ UNCHANGED <<sessions, messages, parts, nowMs, fsys, call>>

NextView == GetMainSessionView \/ GetMainSessionViewSqlite

SpecView == InitView /\ [][NextView]_vars

-----------------------------------------------------------------------------
(* Claims about the main session view *)

ViewStatuses == {"idle", "busy", "thinking", "running_tool", "unknown"}

SessionMessages == {m \in Range(messages) : m.sessionID = call.sessionId}

\* some tool part of a message of the session is pending or running
ToolInFlight ==
    \E p \in Range(parts) :
        /\ p.status \in InFlight
        /\ \E m \in SessionMessages : m.id = p.messageID

\* m is the newest message: latest time.created, then largest id
IsNewest(m) ==
    /\ m \in SessionMessages
    /\ \A o \in SessionMessages :
          o.created < m.created \/ (o.created = m.created /\ o.id <= m.id)

\* the thinking rule: the newest message is an assistant message without time.completed
NewestIsStreaming ==
    \E m \in SessionMessages :
        IsNewest(m) /\ m.role = "assistant" /\ m.completed = NoTime

\* C1: whenever some tool part of the session's recent messages is pending or
\* running, both backends report running_tool, whichever message is newest and
\* whatever nowMs is.
C1_RunningToolWins ==
    (pc = "viewed" /\ ToolInFlight) =>
        /\ result.files.status = "running_tool"
        /\ result.sqlite.status = "running_tool"

\* C1, sqlite backend alone
C1_RunningToolWinsSqlite ==
    (pc = "viewed" /\ ToolInFlight) => result.sqlite.status = "running_tool"

\* C1: an in-flight part that is followed by a finished part of the same message
C1_Witness ==
    /\ pc = "viewed"
    /\ result.sqlite.status = "running_tool"
    /\ \E i, j \in 1..Len(parts) :
          /\ i < j
          /\ parts[i].messageID = parts[j].messageID
          /\ parts[i].status \in InFlight
          /\ parts[j].status \notin InFlight

\* C2: with no tool part in flight, a newest message that is an assistant
\* message without time.completed makes both backends report thinking,
\* whatever nowMs is.
C2_Thinking ==
    (pc = "viewed" /\ ~ToolInFlight /\ NewestIsStreaming) =>
        /\ result.files.status = "thinking"
        /\ result.sqlite.status = "thinking"

\* C2, sqlite backend alone
C2_ThinkingSqlite ==
    (pc = "viewed" /\ ~ToolInFlight /\ NewestIsStreaming) =>
        result.sqlite.status = "thinking"

\* C2: a streaming assistant message older than the freshness window
C2_Witness ==
    /\ pc = "viewed"
    /\ ~ToolInFlight
    /\ NewestIsStreaming
    /\ \A m \in SessionMessages : nowMs - m.created > FreshMs
    /\ result.sqlite.status = "thinking"

\* the status the freshness rule asks of a view
FreshnessRuleHolds(view) ==
    /\ view.status \in ViewStatuses
    /\ (~ToolInFlight /\ ~NewestIsStreaming) =>
          /\ \A m \in SessionMessages : IsNewest(m) =>
                view.status = IF nowMs - m.created <= FreshMs THEN "busy" ELSE "idle"
          /\ (view.status = "unknown" <=> SessionMessages = {})

\* C3: with no tool part in flight and the thinking rule not applying, the
\* status is busy when nowMs minus the newest message's time.created is at
\* most 15000 and idle when it is greater; unknown only for a session without
\* messages; every view carries one of the five statuses.
C3_FreshnessRule ==
    /\ pc \in {"files_viewed", "viewed"} => FreshnessRuleHolds(result.files)
    /\ pc = "viewed" => FreshnessRuleHolds(result.sqlite)

\* C3: a newest message exactly 15000 ms old is busy in both backends
C3_Witness ==
    /\ pc = "viewed"
    /\ ~ToolInFlight
    /\ ~NewestIsStreaming
    /\ \E m \in SessionMessages : IsNewest(m) /\ nowMs - m.created = FreshMs
    /\ result.files.status = "busy"
    /\ result.sqlite.status = "busy"

-----------------------------------------------------------------------------
(* Session resolution *)

\* getMessageDir: the session's message directory (directly under the
\* message storage or one level below it), "" when there is none.  A
\* directory exists as soon as it holds a file, parseable or not.
getMessageDir(allMessages, sessionID) ==
    IF \E m \in Range(allMessages) : m.sessionID = sessionID THEN sessionID ELSE NoId

\* every session taken to exist
sessionExistsUnchecked(allMessages, sessionID) == TRUE

\* sessionExists (files backend)
sessionExists(allMessages, sessionID) == getMessageDir(allMessages, sessionID) # NoId

\* readMainSessionMetas (files backend): parentless session files, optionally
\* of one directory (compared as a string), sorted by time.updated descending.
readMainSessionMetas(allSessions, directoryFilter) ==
    LET metas == SelectSeq(allSessions, LAMBDA m :
                    /\ m.parentID = NoId
                    /\ (directoryFilter # NoStr => m.directory = directoryFilter))
    IN  ArraySort(metas, LAMBDA a, b : a.updated > b.updated)

\* pickActiveSessionId (files backend)
pickActiveSessionId(allSessions, allMessages, projectRoot, ids) ==
    LET found == {i \in 1..Len(ids) : sessionExists(allMessages, ids[i])}
        metas == readMainSessionMetas(allSessions, projectRoot)
    IN  IF found # {} THEN ids[CHOOSE i \in found : \A j \in found : j <= i]
        ELSE IF metas = <<>> THEN NoId ELSE metas[1].id

\* the directory a path names once symbolic links are resolved
\* (path.resolve, realpathSafe, path.normalize)
RealDirectory(d) == IF d = "/repo-link" THEN "/repo" ELSE d

\* readMainSessionMetasSqlite: parentless session rows ordered by time_updated
\* descending, then id descending; the directory filter compares real paths.
readMainSessionMetasSqlite(allSessions, directoryFilter) ==
    LET ordered == ArraySort(SelectSeq(allSessions, LAMBDA m : m.parentID = NoId),
                       LAMBDA a, b : \/ a.updated > b.updated
                                     \/ (a.updated = b.updated /\ a.id > b.id))
    IN  SelectSeq(ordered, LAMBDA m :
            /\ m.projectID # NoStr
            /\ m.directory # NoStr
            /\ (directoryFilter # NoStr =>
                   RealDirectory(m.directory) = RealDirectory(directoryFilter)))

\* pickActiveSessionIdSqlite: a listed session counts as present when a read
\* of its newest message (limit 1) returns a row.
pickActiveSessionIdSqlite(allSessions, allMessages, projectRoot, ids) ==
    LET found == {i \in 1..Len(ids) :
                     readRecentMessageMetasSqlite(allMessages, ids[i], 1) # <<>>}
        metas == readMainSessionMetasSqlite(allSessions, projectRoot)
    IN  IF found # {} THEN ids[CHOOSE i \in found : \A j \in found : j <= i]
        ELSE IF metas = <<>> THEN NoId ELSE metas[1].id

-----------------------------------------------------------------------------
(* Specification of session resolution: a stored set of sessions and a    *)
(* boulder list, then the two backends' choice of the active session.      *)

\* most sessions in storage
MaxSessions == 2

\* most ids in the boulder list
MaxBoulder == 2

ProjectRoot == "/repo"

SessionKinds == {"main", "elsewhere", "child"}

UpdatedTimes == {100, 5000}

\* what a session has in the message table: nothing, one message, or one
\* message followed by a newer row whose payload does not parse
MessagePatterns == {"none", "one", "junk_newest"}

StoredSession(id, kind, updated) ==
    [id        |-> id,
     projectID |-> "proj_1",
     parentID  |-> IF kind = "child" THEN MaxSessions + 2 ELSE NoId,
     directory |-> IF kind = "elsewhere" THEN "/other" ELSE ProjectRoot,
     title     |-> <<>>,
     created   |-> 10,
     updated   |-> updated]

PatternRows(sessionID, pattern) ==
    IF pattern = "none" THEN <<>>
    ELSE IF pattern = "one" THEN <<StoredMessage(NoId, sessionID, "done", 100)>>
    ELSE <<StoredMessage(NoId, sessionID, "done", 100),
           [StoredMessage(NoId, sessionID, "done", 200) EXCEPT !.json = FALSE]>>

\* the message table: the sessions' rows one after the other, numbered
RECURSIVE PatternTable(_, _)
PatternTable(pattern, n) ==
    IF n = 0 THEN <<>>
    ELSE PatternTable(pattern, n - 1) \o PatternRows(n, pattern[n])

Numbered(rows) == [i \in 1..Len(rows) |-> [rows[i] EXCEPT !.id = i]]

\* boulder lists name each session at most once; one id names no session
BoulderLists ==
    {b \in SeqsUpTo(1..(MaxSessions + 1), MaxBoulder) :
        \A i, j \in 1..Len(b) : i # j => b[i] # b[j]}

InitPick ==
    /\ \E n \in 0..MaxSessions :
         \E k \in [1..n -> SessionKinds], u \in [1..n -> UpdatedTimes],
            mp \in [1..n -> MessagePatterns] :
            /\ sessions = [i \in 1..n |-> StoredSession(i, k[i], u[i])]
            /\ messages = Numbered(PatternTable(mp, n))
    /\ parts = <<>>
    /\ nowMs = 0
    /\ fsys = <<>>
    /\ call \in [projectRoot : {ProjectRoot}, boulderSessionIds : BoulderLists]
    /\ result = [files |-> NoId, sqlite |-> NoId]
    /\ pc = "stored"

PickActiveSessionId ==
    /\ pc = "stored"
    /\ result' = [result EXCEPT !.files =
                     pickActiveSessionId(sessions, messages, call.projectRoot,
                                         call.boulderSessionIds)]
    /\ pc' = "files_picked"
    /\ UNCHANGED <<sessions, messages, parts, nowMs, fsys, call>>

PickActiveSessionIdSqlite ==
    /\ pc = "files_picked"
    /\ result' = [result EXCEPT !.sqlite =
                     pickActiveSessionIdSqlite(sessions, messages, call.projectRoot,
                                               call.boulderSessionIds)]
    /\ pc' = "picked"
    /\ UNCHANGED <<sessions, messages, parts, nowMs, fsys, call>>

NextPick == PickActiveSessionId \/ PickActiveSessionIdSqlite

SpecPick == InitPick /\ [][NextPick]_vars

-----------------------------------------------------------------------------
(* Claims about session resolution *)

\* the session has a message directory
HasMessageDir(id) == \E m \in Range(messages) : m.sessionID = id

\* the session has a message that passes sanitation
HasAcceptedMessage(id) ==
    \E m \in Range(messages) : m.sessionID = id /\ m.json /\ m.role \in Roles

\* the parentless sessions of the project root
ProjectMainSessions ==
    {m \in Range(sessions) : m.parentID = NoId /\ m.directory = call.projectRoot}

\* picked is the last listed id that exists, else a most recently updated
\* main session of the project root, else null
PickedAsSpecified(picked, Exists(_)) ==
    LET ids    == call.boulderSessionIds
        listed == {i \in 1..Len(ids) : Exists(ids[i])}
    IN  IF listed # {}
        THEN \E i \in listed : picked = ids[i] /\ \A j \in listed : j <= i
        ELSE IF ProjectMainSessions = {} THEN picked = NoId
        ELSE \E m \in ProjectMainSessions :
                /\ picked = m.id
                /\ \A o \in ProjectMainSessions : o.updated <= m.updated

\* C5: both backends return the last id of the boulder list whose session
\* exists; only when no listed session exists do they return the most recently
\* updated main session of the project root, and null when there is none.
C5_PickActive ==
    pc = "picked" =>
        /\ PickedAsSpecified(result.files, HasMessageDir)
        /\ PickedAsSpecified(result.sqlite, HasAcceptedMessage)

\* C5, files backend alone
C5_PickActiveFiles ==
    pc \in {"files_picked", "picked"} => PickedAsSpecified(result.files, HasMessageDir)

\* C5, sqlite backend when every message row of the listed sessions parses
C5_PickActiveSqliteCleanRows ==
    (pc = "picked" /\ \A m \in Range(messages) : m.json) =>
        PickedAsSpecified(result.sqlite, HasAcceptedMessage)

\* C5: a later-listed existing session is preferred to an earlier one and to
\* the project's newest main session
C5_Witness ==
    /\ pc = "picked"
    /\ Len(call.boulderSessionIds) = 2
    /\ \A i \in 1..2 : HasMessageDir(call.boulderSessionIds[i])
    /\ \A m \in Range(messages) : m.json
    /\ result.files = call.boulderSessionIds[2]
    /\ result.sqlite = call.boulderSessionIds[2]
    /\ \E m \in ProjectMainSessions : m.id # result.files

\* C6: in the sqlite backend, when the most recently updated main session of
\* the project root was updated later than the existing session the boulder
\* list names, the main session is returned; the boulder session is returned
\* when it is the most recent.
C6_NewestMainOverStaleBoulder ==
    (pc = "picked" /\ \A r \in Range(messages) : r.json) =>
        LET ids    == call.boulderSessionIds
            listed == {i \in 1..Len(ids) : HasAcceptedMessage(ids[i])}
        IN  \A i \in listed : (\A j \in listed : j <= i) =>
              \A b \in Range(sessions) : b.id = ids[i] =>
                /\ \A m \in ProjectMainSessions :
                      (/\ \A o \in ProjectMainSessions : o.updated <= m.updated
                       /\ m.updated > b.updated)
                      => result.sqlite # b.id
                /\ (\A m \in ProjectMainSessions : m.updated <= b.updated)
                      => result.sqlite = b.id

-----------------------------------------------------------------------------
(* Path guard (paths.ts).  A path is the sequence of its segments; <<>> is
   "/".  The file system is a set of existing entries and a set of symbolic
   links, each link a record [at |-> path, to |-> target path]. *)

\* what a failing realpathSync / a null result is written as
NoPath == <<"<enoent>">>

\* the segment names s for which s.startsWith("..") holds
DotDotNames == {"..", "..data"}

\* symbolic links followed before realpathSync gives up (ELOOP)
MaxLinkHops == 2

IsPrefix(a, b) == Len(a) <= Len(b) /\ SubSeq(b, 1, Len(a)) = a

\* path.dirname: the parent, "/" for "/"
dirname(p) == IF p = <<>> THEN <<>> ELSE SubSeq(p, 1, Len(p) - 1)

\* lexical normalisation done by path.resolve and path.join: ".." removes the
\* segment before it, and nothing at "/"
RECURSIVE normalize(_, _)
normalize(done, rest) ==
    IF rest = <<>> THEN done
    ELSE IF Head(rest) = ".." THEN normalize(dirname(done), Tail(rest))
    ELSE normalize(Append(done, Head(rest)), Tail(rest))

\* path.resolve(baseDir, p): an absolute p ignores baseDir
pathResolve(baseDir, p) ==
    IF p.absolute THEN normalize(<<>>, p.segments) ELSE normalize(baseDir, p.segments)

\* path.join(a, b)
pathJoin(a, b) == normalize(a, b)

\* path.relative(from, to) of two normalised absolute paths, as segments
pathRelative(from, to) ==
    LET m == Min(Len(from), Len(to))
        k == CHOOSE n \in 0..m :
                /\ \A i \in 1..n : from[i] = to[i]
                /\ n = m \/ from[n + 1] # to[n + 1]
    IN  [i \in 1..(Len(from) - k) |-> ".."] \o SubSeq(to, k + 1, Len(to))

\* path.isAbsolute of a segment list: the string starts with the separator
isAbsolute(rel) == rel # <<>> /\ rel[1] = ""

\* fs.realpathSync: every segment must exist, links are followed
RECURSIVE realpathFrom(_, _, _, _)
realpathFrom(fs, cur, rest, hops) ==
    IF rest = <<>> THEN cur
    ELSE LET next  == Append(cur, Head(rest))
             links == {l \in fs.links : l.at = next}
         IN  IF links # {}
             THEN IF hops = 0 THEN NoPath
                  ELSE LET target == realpathFrom(fs, <<>>, (CHOOSE l \in links : TRUE).to,
                                                  hops - 1)
                       IN  IF target = NoPath THEN NoPath
                           ELSE realpathFrom(fs, target, Tail(rest), hops)
             ELSE IF next \in fs.entries THEN realpathFrom(fs, next, Tail(rest), hops)
             ELSE NoPath

realpathSync(fs, p) == realpathFrom(fs, <<>>, p, MaxLinkHops)

realpathSafe(fs, p) == realpathSync(fs, p)

\* fs.existsSync follows links
existsSync(fs, p) == realpathSync(fs, p) # NoPath

isPathInside(rootReal, candidateReal) ==
    LET rel == pathRelative(rootReal, candidateReal)
    IN  rel = <<>> \/ (~(rel # <<>> /\ rel[1] \in DotDotNames) /\ ~isAbsolute(rel))

\* the loop of resolveCandidateReal: the nearest ancestor that exists
RECURSIVE nearestExisting(_, _)
nearestExisting(fs, cur) ==
    IF existsSync(fs, cur) THEN cur
    ELSE IF dirname(cur) = cur THEN NoPath
    ELSE nearestExisting(fs, dirname(cur))

resolveCandidateReal(fs, candidateAbs) ==
    LET existing == realpathSafe(fs, candidateAbs)
    IN  IF existing # NoPath THEN existing
        ELSE LET cur == nearestExisting(fs, candidateAbs)
             IN  IF cur = NoPath THEN NoPath
                 ELSE LET parentReal == realpathSafe(fs, cur)
                          suffix     == pathRelative(cur, candidateAbs)
                      IN  IF parentReal = NoPath THEN NoPath
                          ELSE IF suffix # <<>> THEN pathJoin(parentReal, suffix)
                          ELSE parentReal

\* what a throw of Access denied is written as
AccessDenied == [ok |-> FALSE, path |-> NoPath]

assertAllowedPath(fs, candidatePath, allowedRoots, baseDir) ==
    LET candidateAbs  == pathResolve(baseDir, candidatePath)
        candidateReal == resolveCandidateReal(fs, candidateAbs)
        rootReal(root) ==
            LET rootAbs  == pathResolve(baseDir, root)
                resolved == resolveCandidateReal(fs, rootAbs)
            IN  IF resolved = NoPath THEN rootAbs ELSE resolved
    IN  IF candidateReal = NoPath THEN AccessDenied
        ELSE IF \E i \in 1..Len(allowedRoots) :
                    isPathInside(rootReal(allowedRoots[i]), candidateReal)
             THEN [ok |-> TRUE, path |-> candidateReal]
             ELSE AccessDenied

-----------------------------------------------------------------------------
(* Path guard: the stored file systems and the calls *)

MaxPathLen == 3

PathNames == {"r", "d", "..data", "link", "out", ".."}

AbsPath(segments) == [absolute |-> TRUE, segments |-> segments]

\* file systems closed under parents; one link, dangling when its target is
\* not an entry
PathFileSystems ==
    LET inside  == {{}, {<<"r">>}, {<<"r">>, <<"r", "d">>}, {<<"r">>, <<"r", "..data">>},
                    {<<"r">>, <<"r", "d">>, <<"r", "..data">>}}
        outside == {{}, {<<"out">>}, {<<"out">>, <<"out", "d">>}}
        targets == {<<"out">>, <<"out", "d">>, <<"r", "d">>}
    IN  {[entries |-> i \cup o, links |-> l] :
            i \in inside, o \in outside,
            l \in {{}} \cup {{[at |-> <<"r", "link">>, to |-> t]} : t \in targets}}

PathCalls ==
    [candidatePath : [absolute : BOOLEAN, segments : SeqsUpTo(PathNames, MaxPathLen)],
     allowedRoots  : {<<AbsPath(<<"r">>)>>, <<AbsPath(<<"out", "d">>), AbsPath(<<"r">>)>>},
     baseDir       : {<<"r">>}]

InitPath ==
    /\ sessions = <<>>
    /\ messages = <<>>
    /\ parts = <<>>
    /\ nowMs = 0
    /\ fsys \in {f \in PathFileSystems : f.links # {} => <<"r">> \in f.entries}
    /\ call \in PathCalls
    /\ result = AccessDenied
    /\ pc = "stored"

AssertAllowedPath ==
    /\ pc = "stored"
    /\ result' = assertAllowedPath(fsys, call.candidatePath, call.allowedRoots, call.baseDir)
    /\ pc' = "checked"
    /\ UNCHANGED <<sessions, messages, parts, nowMs, fsys, call>>

NextPath == AssertAllowedPath

SpecPath == InitPath /\ [][NextPath]_vars

-----------------------------------------------------------------------------
(* Claims about the path guard *)

\* the resolved real path of a path of the call
ResolvedReal(p) == resolveCandidateReal(fsys, pathResolve(call.baseDir, p))

\* the candidate's resolved real path is an allowed root's or lies under one
NestedUnderSomeRoot ==
    \E i \in 1..Len(call.allowedRoots) :
        IsPrefix(ResolvedReal(call.allowedRoots[i]), ResolvedReal(call.candidatePath))

\* C7: assertAllowedPath returns a path exactly when the candidate's resolved
\* real path equals or is nested under the resolved real path of an allowed
\* root, the path returned is that resolved real path, and otherwise it throws
\* Access denied.
C7_AllowedIffNested ==
    pc = "checked" =>
        /\ result.ok <=> NestedUnderSomeRoot
        /\ result.ok => result.path = ResolvedReal(call.candidatePath)
        /\ ~result.ok => result = AccessDenied

\* C7, one direction: whatever is returned is nested under an allowed root
C7_ReturnedIsNested ==
    (pc = "checked" /\ result.ok) =>
        /\ NestedUnderSomeRoot
        /\ result.path = ResolvedReal(call.candidatePath)

\* the links of the file system that sit inside an allowed root and point
\* outside every allowed root, no allowed root lying under the target either
EscapingLinks ==
    {l \in fsys.links :
        /\ \E i \in 1..Len(call.allowedRoots) :
              IsPrefix(ResolvedReal(call.allowedRoots[i]), l.at)
        /\ \A i \in 1..Len(call.allowedRoots) :
              /\ ~IsPrefix(ResolvedReal(call.allowedRoots[i]), l.to)
              /\ ~IsPrefix(l.to, ResolvedReal(call.allowedRoots[i]))}

\* C8: for a symbolic link inside an allowed root whose target lies outside
\* every allowed root, assertAllowedPath throws Access denied on the link's
\* path and on every path below it.
C8_SymlinkEscapeRejected ==
    pc = "checked" =>
        \A l \in EscapingLinks :
            IsPrefix(l.at, pathResolve(call.baseDir, call.candidatePath)) => ~result.ok

\* C8 for the links whose target exists
C8_ExistingTargetRejected ==
    pc = "checked" =>
        \A l \in EscapingLinks :
            (/\ l.to \in fsys.entries
             /\ IsPrefix(l.at, pathResolve(call.baseDir, call.candidatePath))) => ~result.ok

-----------------------------------------------------------------------------
(* File-backed components on disk: which paths each one touches, and which
   of them it has passed through assertAllowedPath first.  The state keeps
   the paths the guard has returned (guarded), every touch (touched) and the
   touches of a path the guard had not returned (unguarded). *)

\* names f for which f.endsWith(".json") holds
JsonNames == {"ses_a.json", "msg_1.json", "boulder.json"}

getStorageRoots(storageRoot) ==
    [session |-> pathJoin(storageRoot, <<"session">>),
     message |-> pathJoin(storageRoot, <<"message">>),
     part    |-> pathJoin(storageRoot, <<"part">>)]

\* fs.readdirSync of an existing directory: the names in it
readdirSync(fs, dir) ==
    LET real == realpathSync(fs, dir)
    IN  {x[Len(x)] : x \in {e \in fs.entries \cup {l.at : l \in fs.links} :
                                e # <<>> /\ dirname(e) = real}}

\* the orders in which a directory listing can come back
Orderings(S) == {o \in SeqsUpTo(S, Cardinality(S)) : Len(o) = Cardinality(S) /\ Range(o) = S}

\* getMessageDir on disk: the directory found ("" written NoPath) and the
\* paths probed, listing being the order readdirSync(messageStorage) returned
getMessageDirOnDisk(fs, listing, messageStorage, sessionID) ==
    LET directPath     == pathJoin(messageStorage, sessionID)
        sessionPath(i) == pathJoin(pathJoin(messageStorage, <<listing[i]>>), sessionID)
        hits           == {i \in 1..Len(listing) : existsSync(fs, sessionPath(i))}
        first          == IF hits = {} THEN Len(listing)
                          ELSE CHOOSE i \in hits : \A j \in hits : i <= j
    IN  IF existsSync(fs, directPath)
        THEN [dir |-> directPath, touched |-> {directPath}]
        ELSE IF ~existsSync(fs, messageStorage)
        THEN [dir |-> NoPath, touched |-> {directPath, messageStorage}]
        ELSE [dir     |-> IF hits = {} THEN NoPath ELSE sessionPath(first),
              touched |-> {directPath, messageStorage}
                              \cup {sessionPath(i) : i \in 1..first}]

\* the paths readMainSessionMetas touches
readMainSessionMetasOnDisk(fs, sessionStorage) ==
    IF ~existsSync(fs, sessionStorage) THEN {sessionStorage}
    ELSE LET projectPaths == {pathJoin(sessionStorage, <<d>>) :
                                 d \in readdirSync(fs, sessionStorage) \ JsonNames}
         IN  {sessionStorage} \cup projectPaths
                 \cup UNION {{pathJoin(pp, <<f>>) : f \in readdirSync(fs, pp) \cap JsonNames} :
                                pp \in projectPaths}

\* the paths pickActiveSessionId touches: the boulder ids from the last one
\* down to the first that exists, then the session metadata when none does
RECURSIVE pickActiveSessionIdOnDisk(_, _, _, _)
pickActiveSessionIdOnDisk(fs, listing, storage, ids) ==
    IF ids = <<>> THEN readMainSessionMetasOnDisk(fs, storage.session)
    ELSE LET found == getMessageDirOnDisk(fs, listing, storage.message, ids[Len(ids)])
         IN  IF found.dir # NoPath THEN found.touched
             ELSE found.touched
                     \cup pickActiveSessionIdOnDisk(fs, listing, storage,
                                                    SubSeq(ids, 1, Len(ids) - 1))

\* the paths getMainSessionView touches: the message directory, its message
\* files and the part directory of each message read
getMainSessionViewOnDisk(fs, listing, storage, sessionId) ==
    LET found == getMessageDirOnDisk(fs, listing, storage.message, sessionId)
        files == IF found.dir = NoPath THEN {}
                 ELSE readdirSync(fs, found.dir) \cap JsonNames
    IN  found.touched
            \cup (IF found.dir = NoPath THEN {} ELSE {found.dir})
            \cup {pathJoin(found.dir, <<f>>) : f \in files}
            \cup (IF files = {} THEN {} ELSE {pathJoin(storage.part, <<"msg_1">>)})

\* the paths deriveBackgroundTasks touches for a tool part that names a
\* session to resume
deriveBackgroundTasksResumeOnDisk(fs, listing, storage, resume) ==
    LET found == getMessageDirOnDisk(fs, listing, storage.message, resume)
    IN  found.touched \cup (IF found.dir = NoPath THEN {} ELSE {found.dir})

\* fs touches of paths by a component, given what the guard has returned so far
Touch(log, by, paths) ==
    [calls     |-> log.calls,
     guarded   |-> log.guarded,
     touched   |-> log.touched \cup {[path |-> q, by |-> by] : q \in paths},
     unguarded |-> log.unguarded \cup {[path |-> q, by |-> by] : q \in paths \ log.guarded}]

Guard(log, path) == [log EXCEPT !.guarded = @ \cup {path}]

-----------------------------------------------------------------------------
(* File-backed components on disk: the stored file systems and the steps *)

MaxBoulderIds == 1

\* component calls followed in one behaviour
MaxCalls == 2

StorageRoot == <<"s">>

DiskProjectRoot == <<"p">>

\* session ids, as the segments path.join sees in them
SessionIdInputs == {<<"ses_a">>, <<"ses_b">>, <<"..", "..", "out">>}

PlanPathInputs == {AbsPath(<<"p", "plan.md">>), AbsPath(<<"out", "msg_1.json">>)}

DiskFileSystems ==
    LET direct  == {<<"s", "message">>, <<"s", "message", "ses_a">>,
                    <<"s", "message", "ses_a", "msg_1.json">>}
        nested  == {<<"s", "message">>, <<"s", "message", "proj">>,
                    <<"s", "message", "proj", "ses_b">>}
        metas   == {<<"s", "session">>, <<"s", "session", "proj">>,
                    <<"s", "session", "proj", "ses_a.json">>}
        outside == {<<"out">>, <<"out", "msg_1.json">>}
        project == {<<"p">>, <<"p", ".sisyphus">>, <<"p", ".sisyphus", "boulder.json">>}
        planned == {[at |-> <<"p", "plan.md">>, to |-> <<"out", "msg_1.json">>]}
    IN  {[entries |-> {<<"s">>} \cup UNION chosen, links |-> l] :
            chosen \in SUBSET {direct, nested, metas, outside, project},
            l \in {{}, planned}}

NoLog == [calls |-> 0, guarded |-> {}, touched |-> {}, unguarded |-> {}]

\* one more component call has been made
Called(log) == [log EXCEPT !.calls = @ + 1]

InitGuard ==
    /\ sessions = <<>>
    /\ messages = <<>>
    /\ parts = <<>>
    /\ nowMs = 0
    /\ fsys \in DiskFileSystems
    /\ call = [storageRoot |-> StorageRoot, projectRoot |-> DiskProjectRoot]
    /\ result = NoLog
    /\ pc = "stored"

\* boulder.ts readBoulderState
ReadBoulderState ==
    LET checked == assertAllowedPath(fsys,
                       AbsPath(pathJoin(call.projectRoot, <<".sisyphus", "boulder.json">>)),
                       <<AbsPath(call.projectRoot)>>, call.projectRoot)
    IN  /\ result.calls < MaxCalls
        /\ result' = Called(IF checked.ok
                            THEN Touch(Guard(result, checked.path), "readBoulderState",
                                       {checked.path})
                            ELSE result)
        /\ pc' = "readBoulderState"
        /\ UNCHANGED <<sessions, messages, parts, nowMs, fsys, call>>

\* boulder.ts readPlanProgress
ReadPlanProgress ==
    \E planPath \in PlanPathInputs :
        LET checked == assertAllowedPath(fsys, planPath, <<AbsPath(call.projectRoot)>>,
                                         call.projectRoot)
        IN  /\ result.calls < MaxCalls
            /\ result' = Called(IF checked.ok
                                THEN Touch(Guard(result, checked.path), "readPlanProgress",
                                           {checked.path})
                                ELSE result)
            /\ pc' = "readPlanProgress"
            /\ UNCHANGED <<sessions, messages, parts, nowMs, fsys, call>>

\* session.ts pickActiveSessionId
PickActiveSessionIdOnDisk ==
    \E ids \in SeqsUpTo(SessionIdInputs, MaxBoulderIds),
       listing \in Orderings(readdirSync(fsys, getStorageRoots(call.storageRoot).message)) :
        /\ result.calls < MaxCalls
        /\ result' = Touch(Called(result), "pickActiveSessionId",
                           pickActiveSessionIdOnDisk(fsys, listing,
                                                     getStorageRoots(call.storageRoot), ids))
        /\ pc' = "pickActiveSessionId"
        /\ UNCHANGED <<sessions, messages, parts, nowMs, fsys, call>>

\* session.ts getMainSessionView
GetMainSessionViewOnDisk ==
    \E sessionId \in SessionIdInputs,
       listing \in Orderings(readdirSync(fsys, getStorageRoots(call.storageRoot).message)) :
        /\ result.calls < MaxCalls
        /\ result' = Touch(Called(result), "getMainSessionView",
                           getMainSessionViewOnDisk(fsys, listing,
                                                    getStorageRoots(call.storageRoot),
                                                    sessionId))
        /\ pc' = "getMainSessionView"
        /\ UNCHANGED <<sessions, messages, parts, nowMs, fsys, call>>

\* background-tasks.ts deriveBackgroundTasks, a task part with a resume value
DeriveBackgroundTasksResumeOnDisk ==
    \E resume \in SessionIdInputs,
       listing \in Orderings(readdirSync(fsys, getStorageRoots(call.storageRoot).message)) :
        /\ result.calls < MaxCalls
        /\ result' = Touch(Called(result), "deriveBackgroundTasks",
                           deriveBackgroundTasksResumeOnDisk(fsys, listing,
                                                             getStorageRoots(call.storageRoot),
                                                             resume))
        /\ pc' = "deriveBackgroundTasks"
        /\ UNCHANGED <<sessions, messages, parts, nowMs, fsys, call>>

NextGuard ==
    \/ ReadBoulderState
    \/ ReadPlanProgress
    \/ PickActiveSessionIdOnDisk
    \/ GetMainSessionViewOnDisk
    \/ DeriveBackgroundTasksResumeOnDisk

SpecGuard == InitGuard /\ [][NextGuard]_vars

-----------------------------------------------------------------------------
(* Claims about the guard's coverage *)

\* C9: in every file-backed component, a path is touched (existence check,
\* directory listing, file read) only after assertAllowedPath has passed that
\* path; this includes the paths built from a session id, a message id or a
\* resume value.
C9_EveryTouchGuarded == result.unguarded = {}

\* C9 for boulder and plan reading alone
C9_BoulderAndPlanGuarded ==
    \A u \in result.unguarded : u.by \notin {"readBoulderState", "readPlanProgress"}

\* C9: touches stay under the storage root or the project root
C9_TouchesStayInside ==
    \A t \in result.touched :
        IsPrefix(call.storageRoot, t.path) \/ IsPrefix(call.projectRoot, t.path)

-----------------------------------------------------------------------------
(* Correlation of a task call with its child session (background-tasks.ts,
   sqlite-derive.ts).  A string is the sequence of its tokens, no token being
   the beginning of another, so that startsWith and includes of the strings
   are prefix and infix of the sequences. *)

\* a value that is not a string (null, undefined)
NoText == <<NoStr>>

WindowBeforeMs == 10000
WindowAfterMs == 15 * 60000

\* the whitespace tokens String.trim removes
Blank == {"\t"}

RECURSIVE trimStart(_)
trimStart(s) == IF s # <<>> /\ Head(s) \in Blank THEN trimStart(Tail(s)) ELSE s

trim(s) == Reverse(trimStart(Reverse(trimStart(s))))

startsWith(t, prefix) == IsPrefix(prefix, t)

includes(t, infix) ==
    \E i \in 0..(Len(t) - Len(infix)) : SubSeq(t, i + 1, i + Len(infix)) = infix

\* typeof subagentType === "string" && subagentType.trim() ? subagentType.trim() : null
TrimmedOrNull(text) == IF text # NoText /\ trim(text) # <<>> THEN trim(text) ELSE NoText

\* the window with its last millisecond left out
InCorrelationWindowOpenEnd(created, startedAt) ==
    /\ created # NoTime
    /\ created >= startedAt - WindowBeforeMs
    /\ created < startedAt + WindowAfterMs

\* m.time?.created >= windowStart && m.time?.created <= windowEnd
InCorrelationWindow(created, startedAt) ==
    /\ created # NoTime
    /\ created >= startedAt - WindowBeforeMs
    /\ created <= startedAt + WindowAfterMs

\* the comparator of poolFallback.sort: nearest to startedAt, then newer, then id
CloserToStart(a, b, startedAt) ==
    LET ad == Abs(a.created - startedAt)
        bd == Abs(b.created - startedAt)
    IN  IF ad # bd THEN ad < bd
        ELSE IF b.created # a.created THEN b.created < a.created
        ELSE LocaleLess(a.id, b.id)

\* the three steps both finders share: exact titles, then titles that start
\* with the description, then every candidate; the head after sorting
PickFromCandidates(candidates, expectedTitles, description, subagentType, startedAt) ==
    LET exact == SelectSeq(candidates, LAMBDA m : m.title # NoText /\ m.title \in expectedTitles)
        pool  == IF exact # <<>> THEN exact
                 ELSE SelectSeq(candidates, LAMBDA m :
                         LET t == IF m.title # NoText THEN m.title ELSE <<>>
                         IN  IF t = <<>> THEN FALSE
                             ELSE IF /\ subagentType # NoText
                                     /\ startsWith(t, description)
                                     /\ includes(t, <<"@">> \o subagentType)
                             THEN TRUE
                             ELSE startsWith(t, description))
        poolFallback == IF pool # <<>> THEN pool ELSE candidates
        sorted == ArraySort(poolFallback, LAMBDA a, b : CloserToStart(a, b, startedAt))
    IN  IF sorted = <<>> THEN NoId ELSE sorted[1].id

\* background-tasks.ts
findBackgroundSessionId(opts) ==
    LET subagentType   == TrimmedOrNull(opts.subagentType)
        expectedTitles ==
            {<<"Background: ">> \o opts.description}
                \cup (IF subagentType # NoText
                      THEN {opts.description \o <<" (", "@">> \o subagentType \o <<" subagent)">>}
                      ELSE {})
                \cup {<<"Task: ">> \o opts.description}
        candidates == SelectSeq(opts.allSessionMetas, LAMBDA m :
                          /\ m.parentID = opts.parentSessionId
                          /\ InCorrelationWindow(m.created, opts.startedAt))
    IN  PickFromCandidates(candidates, expectedTitles, opts.description, subagentType, opts.startedAt)

\* sqlite-derive.ts
findBackgroundSessionIdSqlite(opts) ==
    LET subagentType   == TrimmedOrNull(opts.subagentType)
        expectedTitles ==
            {<<"Background: ">> \o opts.description}
                \cup (IF subagentType # NoText
                      THEN {opts.description \o <<" (", "@">> \o subagentType \o <<" subagent)">>}
                      ELSE {})
                \cup {<<"Task: ">> \o opts.description}
        candidates == SelectSeq(opts.allSessionMetas, LAMBDA m :
                          /\ m.parentID = opts.parentSessionId
                          /\ InCorrelationWindow(m.created, opts.startedAt))
    IN  PickFromCandidates(candidates, expectedTitles, opts.description, subagentType, opts.startedAt)

-----------------------------------------------------------------------------
(* Correlation: the stored child sessions and the calls *)

MaxChildSessions == 2

\* the session the task parts belong to, and some other parent
ParentId == MaxChildSessions + 1
StrangerId == MaxChildSessions + 2

StartedAt == 2 * WindowBeforeMs

\* both ends of the window, the millisecond outside each, and the time as far
\* after the start as the window's first millisecond is before it
ChildCreatedTimes ==
    {StartedAt - WindowBeforeMs - 1, StartedAt - WindowBeforeMs,
     StartedAt + WindowBeforeMs,
     StartedAt + WindowAfterMs, StartedAt + WindowAfterMs + 1}

ChildTitles ==
    {NoText, <<"Background: ", "scan">>, <<"Task: ", "scan">>,
     <<"scan", " (", "@", "explore", " subagent)">>, <<"scan", " repo">>,
     <<"scan", " by ", "@", "explore">>, <<"other">>}

ChildSession(id, parentID, created, title) ==
    [id |-> id, projectID |-> "proj_1", parentID |-> parentID, directory |-> ProjectRoot,
     title |-> title, created |-> created, updated |-> created]

\* what a child row can hold: any time and title under the parent, one row
\* shape under a stranger
ChildShapes ==
    [parentID : {ParentId}, created : ChildCreatedTimes, title : ChildTitles]
        \cup [parentID : {StrangerId}, created : {StartedAt + WindowAfterMs},
              title : {<<"Background: ", "scan">>}]

\* the description of a correlated call is never empty: deriveBackgroundTasks
\* skips a part whose trimmed description is
CorrelationCalls ==
    [allSessionMetas : {<<>>}, parentSessionId : {ParentId}, description : {<<"scan">>},
     subagentType : {NoText, <<"explore">>, <<"\t">>}, category : {NoText},
     startedAt : {StartedAt}]

InitBg ==
    /\ \E n \in 0..MaxChildSessions : \E shape \in [1..n -> ChildShapes] :
          sessions = [i \in 1..n |->
                        ChildSession(i, shape[i].parentID, shape[i].created, shape[i].title)]
    /\ messages = <<>>
    /\ parts = <<>>
    /\ nowMs = 0
    /\ fsys = <<>>
    /\ call \in CorrelationCalls
    /\ result = [files |-> NoId, sqlite |-> NoId]
    /\ pc = "stored"

FindBackgroundSessionId ==
    /\ pc = "stored"
    /\ result' = [result EXCEPT !.files =
                     findBackgroundSessionId([call EXCEPT !.allSessionMetas = sessions])]
    /\ pc' = "files_found"
    /\ UNCHANGED <<sessions, messages, parts, nowMs, fsys, call>>

FindBackgroundSessionIdSqlite ==
    /\ pc = "files_found"
    /\ result' = [result EXCEPT !.sqlite =
                     findBackgroundSessionIdSqlite([call EXCEPT !.allSessionMetas = sessions])]
    /\ pc' = "found"
    /\ UNCHANGED <<sessions, messages, parts, nowMs, fsys, call>>

NextBg == FindBackgroundSessionId \/ FindBackgroundSessionIdSqlite

SpecBg == InitBg /\ [][NextBg]_vars

-----------------------------------------------------------------------------
(* Claims about correlation *)

\* the children of the parent created in [startedAt-10000, startedAt+15*60000]
WindowSessions ==
    {m \in Range(sessions) :
        /\ m.parentID = call.parentSessionId
        /\ m.created >= call.startedAt - 10000
        /\ m.created <= call.startedAt + 15 * 60000}

\* "Background: D", "D (@S subagent)" when S is given, "Task: D"
ExpectedTitlesOfCall ==
    {<<"Background: ">> \o call.description, <<"Task: ">> \o call.description}
        \cup (IF call.subagentType \in {NoText, <<"\t">>} THEN {}
              ELSE {call.description \o <<" (", "@">> \o call.subagentType
                        \o <<" subagent)">>})

ExactSessions == {m \in WindowSessions : m.title \in ExpectedTitlesOfCall}

PrefixSessions ==
    {m \in WindowSessions : m.title # NoText /\ IsPrefix(call.description, m.title)}

FoundAsSpecified(found) ==
    /\ found = NoId <=> WindowSessions = {}
    /\ found # NoId => \E m \in WindowSessions : m.id = found
    /\ ExactSessions # {} => \E m \in ExactSessions : m.id = found
    /\ (ExactSessions = {} /\ PrefixSessions # {}) => \E m \in PrefixSessions : m.id = found

\* C10: findBackgroundSessionId returns only a child of the main session
\* created in [startedAt-10000, startedAt+15*60000], ends included, and null
\* exactly when there is none; a session with an expected title is preferred,
\* then one whose title starts with the description, then any of the window.
C10_FindBackgroundSessionId ==
    /\ pc \in {"files_found", "found"} => FoundAsSpecified(result.files)
    /\ pc = "found" => FoundAsSpecified(result.sqlite)

\* C10: the only child in the window sits on its last millisecond, carries no
\* expected title, and is returned although an expected title exists outside
C10_Witness ==
    /\ pc = "found"
    /\ \E m \in WindowSessions :
          /\ WindowSessions = {m}
          /\ m.created = call.startedAt + 15 * 60000
          /\ m.title = <<"other">>
          /\ result.files = m.id
          /\ result.sqlite = m.id
    /\ \E o \in Range(sessions) :
          /\ o.parentID = call.parentSessionId
          /\ o.created = call.startedAt + 15 * 60000 + 1
          /\ o.title \in ExpectedTitlesOfCall

\* the subagent type of the call, NoText when it is missing or blank
SubagentOfCall ==
    IF call.subagentType \in {NoText, <<"\t">>} THEN NoText ELSE call.subagentType

\* the titles that start with the description and contain "@S"
PrefixSessionsWithSubagent ==
    {m \in PrefixSessions :
        \E i \in 1..(Len(m.title) - 1) :
            m.title[i] = "@" /\ <<m.title[i + 1]>> = SubagentOfCall}

IdsOf(tier) == {m.id : m \in tier}

DistanceToStart(m) == IF m.created >= call.startedAt THEN m.created - call.startedAt
                      ELSE call.startedAt - m.created

\* no two sessions of the window are equally far from startedAt
NoTiesInWindow ==
    \A a, b \in WindowSessions : a.id # b.id => DistanceToStart(a) # DistanceToStart(b)

\* C11: with a subagent type S and no exact title, the title-prefix tier
\* holds only the sessions whose title starts with the description and
\* contains "@S": when there is one, the session found is one of them
\* (stated where no tie-break decides).
C11_PrefixTierNeedsSubagent ==
    (/\ pc = "found"
     /\ SubagentOfCall # NoText
     /\ ExactSessions = {}
     /\ PrefixSessionsWithSubagent # {}
     /\ NoTiesInWindow)
        => /\ result.files \in IdsOf(PrefixSessionsWithSubagent)
           /\ result.sqlite \in IdsOf(PrefixSessionsWithSubagent)

\* the tier the finders select from: exact titles, else titles that start
\* with the description, else the whole window
SelectedTier ==
    IF ExactSessions # {} THEN ExactSessions
    ELSE IF PrefixSessions # {} THEN PrefixSessions
    ELSE WindowSessions

\* `found` is the session of the tier nearest to startedAt, the newest of
\* those, and of those still tied the one with the largest id
ChosenLargestId(found) ==
    \A f \in SelectedTier : f.id = found =>
        \A m \in SelectedTier :
            /\ DistanceToStart(f) <= DistanceToStart(m)
            /\ DistanceToStart(f) = DistanceToStart(m) => f.created >= m.created
            /\ (DistanceToStart(f) = DistanceToStart(m) /\ f.created = m.created)
                  => f.id >= m.id

\* the same with the smallest id winning the last tie
ChosenSmallestId(found) ==
    \A f \in SelectedTier : f.id = found =>
        \A m \in SelectedTier :
            /\ DistanceToStart(f) <= DistanceToStart(m)
            /\ DistanceToStart(f) = DistanceToStart(m) => f.created >= m.created
            /\ (DistanceToStart(f) = DistanceToStart(m) /\ f.created = m.created)
                  => f.id <= m.id

\* the finders' answers on the stored sessions listed in the opposite order
FoundOnReversedListing ==
    [files  |-> findBackgroundSessionId(
                    [call EXCEPT !.allSessionMetas = Reverse(sessions)]),
     sqlite |-> findBackgroundSessionIdSqlite(
                    [call EXCEPT !.allSessionMetas = Reverse(sessions)])]

\* C12: the session found is, within the selected tier, the one nearest to
\* startedAt, then the newest, then the one with the largest id, and it is
\* the same whatever the order the sessions are listed in.
C12_TieBreaks ==
    pc = "found" =>
        /\ ChosenLargestId(result.files)
        /\ ChosenLargestId(result.sqlite)
        /\ FoundOnReversedListing = result

\* the tie-breaks as the comparator has them: nearest, newest, smallest id
C12_TieBreaksSmallestId ==
    pc = "found" =>
        /\ ChosenSmallestId(result.files)
        /\ ChosenSmallestId(result.sqlite)
        /\ FoundOnReversedListing = result

-----------------------------------------------------------------------------
(* Background task rows (background-tasks.ts, sqlite-derive.ts).  A string
   is the sequence of its symbols, a literal of the code being one symbol. *)

DESCRIPTION_MAX == 120
AGENT_MAX == 30

\* rows after which the scan of the main session's messages stops
MaxRows == 50

\* a child session updated within this many ms is running
RunningMs == 15000

TASK_TOOL_NAMES == {"delegate_task", "task"}

isTaskTool(toolName) == toolName \in TASK_TOOL_NAMES

\* the trimmed value left at its full length
clampStringUncut(value, maxLen) ==
    IF value = NoText THEN NoText
    ELSE IF trim(value) = <<>> THEN NoText ELSE trim(value)

\* null for a non-string or blank value, else the trimmed value cut at maxLen
clampString(value, maxLen) ==
    IF value = NoText THEN NoText
    ELSE LET t == trim(value)
         IN  IF t = <<>> THEN NoText
             ELSE IF Len(t) <= maxLen THEN t ELSE SubSeq(t, 1, maxLen)

\* state.time.start when it is a finite number, else null
readStartTimeFromToolPart(part) == part.start

\* the ISO date of ts without its milliseconds, as the second it names
formatIsoNoMs(ts) == ts \div 1000

\* a unit formatElapsed leaves out
NoUnit == 0 - 1

\* the units formatElapsed writes: 2d3h, 1h30m, 5m12s, 42s
formatElapsed(ms) ==
    LET totalSeconds == IF ms < 0 THEN 0 ELSE ms \div 1000
        seconds      == totalSeconds % 60
        totalMinutes == totalSeconds \div 60
        minutes      == totalMinutes % 60
        totalHours   == totalMinutes \div 60
        hours        == totalHours % 24
        days         == totalHours \div 24
        none         == [d |-> NoUnit, h |-> NoUnit, m |-> NoUnit, s |-> NoUnit]
    IN  IF days > 0
        THEN (IF hours > 0 THEN [none EXCEPT !.d = days, !.h = hours]
              ELSE [none EXCEPT !.d = days])
        ELSE IF totalHours > 0
        THEN (IF minutes > 0 THEN [none EXCEPT !.h = totalHours, !.m = minutes]
              ELSE [none EXCEPT !.h = totalHours])
        ELSE IF totalMinutes > 0
        THEN (IF seconds > 0 THEN [none EXCEPT !.m = totalMinutes, !.s = seconds]
              ELSE [none EXCEPT !.m = totalMinutes])
        ELSE [none EXCEPT !.s = seconds]

\* the empty timeline ""
NoTimeline == [start |-> NoTime, elapsed |-> [d |-> NoUnit, h |-> NoUnit, m |-> NoUnit, s |-> NoUnit]]

\* "<start>: <elapsed>"
formatTimeline(startAt, endAtMs) ==
    IF startAt = NoTime THEN NoTimeline
    ELSE [start |-> formatIsoNoMs(startAt), elapsed |-> formatElapsed(endAtMs - startAt)]

\* findTaskSessionId with only the "Task: " title taken as exact
findTaskSessionIdTaskTitleOnly(opts) ==
    LET subagentType   == TrimmedOrNull(opts.subagentType)
        expectedTitles == {<<"Task: ">> \o opts.description}
        candidates == SelectSeq(opts.allSessionMetas, LAMBDA m :
                          /\ m.parentID = opts.parentSessionId
                          /\ InCorrelationWindow(m.created, opts.startedAt))
    IN  PickFromCandidates(candidates, expectedTitles, opts.description, subagentType, opts.startedAt)

\* background-tasks.ts
findTaskSessionId(opts) ==
    LET subagentType   == TrimmedOrNull(opts.subagentType)
        expectedTitles ==
            {<<"Task: ">> \o opts.description}
                \cup (IF subagentType # NoText
                      THEN {opts.description \o <<" (", "@">> \o subagentType \o <<" subagent)">>}
                      ELSE {})
                \cup {<<"Background: ">> \o opts.description}
        candidates == SelectSeq(opts.allSessionMetas, LAMBDA m :
                          /\ m.parentID = opts.parentSessionId
                          /\ InCorrelationWindow(m.created, opts.startedAt))
    IN  PickFromCandidates(candidates, expectedTitles, opts.description, subagentType, opts.startedAt)

\* sqlite-derive.ts
findTaskSessionIdSqlite(opts) ==
    LET subagentType   == TrimmedOrNull(opts.subagentType)
        expectedTitles ==
            {<<"Task: ">> \o opts.description}
                \cup (IF subagentType # NoText
                      THEN {opts.description \o <<" (", "@">> \o subagentType \o <<" subagent)">>}
                      ELSE {})
                \cup {<<"Background: ">> \o opts.description}
        candidates == SelectSeq(opts.allSessionMetas, LAMBDA m :
                          /\ m.parentID = opts.parentSessionId
                          /\ InCorrelationWindow(m.created, opts.startedAt))
    IN  PickFromCandidates(candidates, expectedTitles, opts.description, subagentType, opts.startedAt)

\* the part is a delegation call a row is made of: a task tool, a boolean
\* run_in_background, a description that is not blank
IsDelegationPart(part) ==
    /\ isTaskTool(part.tool)
    /\ part.hasInput
    /\ part.input.run_in_background \in {"true", "false"}
    /\ clampString(part.input.description, DESCRIPTION_MAX) # NoText

\* what a row takes from the part itself
DelegationOfPart(part, messageCreatedAt) ==
    LET subagentType == clampString(part.input.subagent_type, AGENT_MAX)
        category     == clampString(part.input.category, AGENT_MAX)
    IN  [rawDescription |-> trim(part.input.description),
         description    |-> clampString(part.input.description, DESCRIPTION_MAX),
         subagentType   |-> subagentType,
         category       |-> category,
         agent          |-> IF subagentType # NoText THEN subagentType
                            ELSE IF category # NoText
                                 THEN <<"sisyphus-junior (">> \o category \o <<")">>
                                 ELSE <<"unknown">>,
         startedAt      |-> IF readStartTimeFromToolPart(part) # NoTime
                            THEN readStartTimeFromToolPart(part) ELSE messageCreatedAt]

\* queued without a child session, running while it is fresh, completed once
\* it has tool calls, else unknown
TaskStatus(backgroundSessionId, stats, now) ==
    IF backgroundSessionId = NoId THEN "queued"
    ELSE IF /\ stats.lastUpdateAt # NoTime
            /\ stats.lastUpdateAt # 0
            /\ now - stats.lastUpdateAt <= RunningMs
         THEN "running"
    ELSE IF stats.toolCalls > 0 THEN "completed"
    ELSE "unknown"

\* rows.push({...}): the fields of a row
BackgroundTaskRow(part, task, backgroundSessionId, stats, lastModel, now) ==
    LET status        == TaskStatus(backgroundSessionId, stats, now)
        timelineEndMs == IF status = "completed"
                         THEN (IF stats.lastUpdateAt # NoTime THEN stats.lastUpdateAt ELSE now)
                         ELSE now
    IN  [id          |-> part.callID,
         description |-> task.description,
         agent       |-> task.agent,
         status      |-> status,
         toolCalls   |-> IF backgroundSessionId # NoId THEN stats.toolCalls ELSE NoTime,
         lastTool    |-> stats.lastTool,
         lastModel   |-> lastModel,
         timeline    |-> IF status = "unknown" THEN NoTimeline
                         ELSE formatTimeline(task.startedAt, timelineEndMs),
         sessionId   |-> backgroundSessionId]

\* the scan of the main session's messages, newest first, rowsOfMessage[i]
\* being the rows of the i-th (none for a message without time.created): the
\* scan stops after the message that brings the rows to MaxRows
RECURSIVE CollectRows(_, _, _)
CollectRows(rowsOfMessage, i, rows) ==
    IF i > Len(rowsOfMessage) THEN rows
    ELSE LET more == rows \o rowsOfMessage[i]
         IN  IF Len(more) >= MaxRows THEN more
             ELSE CollectRows(rowsOfMessage, i + 1, more)

\* background-tasks.ts readToolPartsForMessage: the part files of a message
\* in file name order, the tool parts with a state among them
readToolPartsForMessage(allParts, messageID) ==
    SelectSeq(PartsOfMessage(allParts, messageID),
              LAMBDA p : p.json /\ p.type = "tool" /\ p.tool # NoStr)

\* background-tasks.ts readRecentMessageMetas: the most recently written
\* message files that parse, in that order
readRecentMessageMetasOfTasks(messageDir, maxMessages) ==
    SelectSeq(Take(Reverse(messageDir), maxMessages), LAMBDA m : m.json)

\* background-tasks.ts readAllSessionMetas
readAllSessionMetas(allSessions) == allSessions

\* deriveBackgroundSessionStats: the child's messages oldest first
deriveBackgroundSessionStats(allParts, metas) ==
    LET ordered == ArraySort(metas, LAMBDA a, b :
                       \/ CreatedOrZero(a) < CreatedOrZero(b)
                       \/ (CreatedOrZero(a) = CreatedOrZero(b) /\ LocaleLess(a.id, b.id)))
        dated   == SelectSeq(ordered, LAMBDA m : m.created # NoTime)
        tools   == [i \in 1..Len(ordered) |-> readToolPartsForMessage(allParts, ordered[i].id)]
        used    == {i \in 1..Len(ordered) : tools[i] # <<>>}
        last    == CHOOSE i \in used : \A j \in used : j <= i
    IN  [toolCalls    |-> IF used = {} THEN 0
                          ELSE Cardinality({<<i, k>> \in (1..Len(ordered)) \X (1..Len(allParts)) :
                                               k <= Len(tools[i])}),
         lastTool     |-> IF used = {} THEN NoStr ELSE tools[last][Len(tools[last])].tool,
         lastUpdateAt |-> IF dated = <<>> THEN NoTime ELSE dated[Len(dated)].created]

\* deriveBackgroundTasks (files backend)
deriveBackgroundTasks(allSessions, allMessages, allParts, mainSessionId, now) ==
    LET metas           == readRecentMessageMetasOfTasks(
                               MessagesOfSession(allMessages, mainSessionId), RecentLimit)
        allSessionMetas == readAllSessionMetas(allSessions)
        readBackgroundMetas(sessionId) ==
            readRecentMessageMetasOfTasks(MessagesOfSession(allMessages, sessionId), RecentLimit)
        Query(task) ==
            [allSessionMetas |-> allSessionMetas,
             parentSessionId |-> mainSessionId,
             description     |-> task.rawDescription,
             subagentType    |-> task.subagentType,
             category        |-> task.category,
             startedAt       |-> task.startedAt]
        \* background: the correlated session; sync: the resumed session if
        \* it exists, else the correlated one, else the task session
        SessionIdOf(part, query, found) ==
            IF part.input.run_in_background = "true" THEN found
            ELSE IF /\ part.input.resume # NoId
                    /\ sessionExists(allMessages, part.input.resume)
                 THEN part.input.resume
            ELSE IF found # NoId THEN found
            ELSE findTaskSessionId(query)
        RowOfMetas(part, task, backgroundSessionId, backgroundMetas) ==
            BackgroundTaskRow(part, task, backgroundSessionId,
                IF backgroundSessionId # NoId
                THEN deriveBackgroundSessionStats(allParts, backgroundMetas)
                ELSE [toolCalls |-> 0, lastTool |-> NoStr, lastUpdateAt |-> task.startedAt],
                IF backgroundSessionId # NoId
                THEN pickLatestModelString(backgroundMetas) ELSE <<>>,
                now)
        RowOfSession(part, task, backgroundSessionId) ==
            RowOfMetas(part, task, backgroundSessionId,
                       readBackgroundMetas(backgroundSessionId))
        RowOfQuery(part, task, query) ==
            RowOfSession(part, task, SessionIdOf(part, query, findBackgroundSessionId(query)))
        RowOfTask(part, task) == RowOfQuery(part, task, Query(task))
        RowOf(part, meta) == RowOfTask(part, DelegationOfPart(part, meta.created))
        RowsOfMessage(meta) ==
            LET made == SelectSeq(readToolPartsForMessage(allParts, meta.id), IsDelegationPart)
            IN  IF meta.created = NoTime THEN <<>>
                ELSE [i \in 1..Len(made) |-> RowOf(made[i], meta)]
        ordered == ArraySort(metas, LAMBDA a, b : CreatedOrZero(a) > CreatedOrZero(b))
    IN  CollectRows([i \in 1..Len(ordered) |-> RowsOfMessage(ordered[i])], 1, <<>>)

\* readAllSessionMetasSqlite: ORDER BY time_updated DESC, id DESC; a missing
\* time_created is 0, a missing time_updated the creation time, and an empty
\* title is left out
readAllSessionMetasSqlite(allSessions) ==
    LET rows == [i \in 1..Len(allSessions) |->
                    [allSessions[i] EXCEPT
                        !.created = IF @ = NoTime THEN 0 ELSE @,
                        !.updated = IF @ # NoTime THEN @
                                    ELSE IF allSessions[i].created = NoTime THEN 0
                                    ELSE allSessions[i].created,
                        !.title   = IF @ = <<>> THEN NoText ELSE @]]
    IN  ArraySort(rows, LAMBDA a, b :
            \/ a.updated > b.updated
            \/ (a.updated = b.updated /\ a.id > b.id))

\* the statistics deriveBackgroundTasksSqlite takes of a child session: its
\* messages oldest first, every part one tool call
BackgroundStatsSqlite(background) ==
    LET statsOrdered == ArraySort(background.metas, LAMBDA a, b :
                            \/ CreatedOrZero(a) < CreatedOrZero(b)
                            \/ (CreatedOrZero(a) = CreatedOrZero(b) /\ LocaleLess(a.id, b.id)))
        dated == SelectSeq(statsOrdered, LAMBDA m : m.created # NoTime)
        tools == [i \in 1..Len(statsOrdered) |->
                     PartsOfMessage(background.parts, statsOrdered[i].id)]
        used  == {i \in 1..Len(statsOrdered) : tools[i] # <<>>}
        last  == CHOOSE i \in used : \A j \in used : j <= i
    IN  [toolCalls    |-> Cardinality({<<i, k>> \in (1..Len(statsOrdered))
                                                      \X (1..Len(background.parts)) :
                                          k <= Len(tools[i])}),
         lastTool     |-> IF used = {} THEN NoStr ELSE tools[last][Len(tools[last])].tool,
         lastUpdateAt |-> IF dated = <<>> THEN NoTime ELSE dated[Len(dated)].created]

\* deriveBackgroundTasksSqlite
deriveBackgroundTasksSqlite(allSessions, allMessages, allParts, mainSessionId, now) ==
    LET main            == readSessionMessagesAndParts(allMessages, allParts, mainSessionId,
                                                       RecentLimit)
        allSessionMetas == readAllSessionMetasSqlite(allSessions)
        readBackgroundSession(sessionId) ==
            readSessionMessagesAndParts(allMessages, allParts, sessionId, RecentLimit)
        Query(task) ==
            [allSessionMetas |-> allSessionMetas,
             parentSessionId |-> mainSessionId,
             description     |-> task.rawDescription,
             subagentType    |-> task.subagentType,
             category        |-> task.category,
             startedAt       |-> task.startedAt]
        \* background: the correlated session; sync: the resumed session if
        \* it has messages, else the correlated one, else the task session
        SessionIdOf(part, query, found) ==
            IF part.input.run_in_background = "true" THEN found
            ELSE IF /\ part.input.resume # NoId
                    /\ readBackgroundSession(part.input.resume).metas # <<>>
                 THEN part.input.resume
            ELSE IF found # NoId THEN found
            ELSE findTaskSessionIdSqlite(query)
        RowOfBackground(part, task, backgroundSessionId, background) ==
            BackgroundTaskRow(part, task, backgroundSessionId,
                BackgroundStatsSqlite(background),
                IF background.metas # <<>>
                THEN pickLatestModelString(background.metas) ELSE <<>>,
                now)
        RowOfSession(part, task, backgroundSessionId) ==
            RowOfBackground(part, task, backgroundSessionId,
                IF backgroundSessionId # NoId
                THEN readBackgroundSession(backgroundSessionId)
                ELSE [metas |-> <<>>, parts |-> <<>>])
        RowOfQuery(part, task, query) ==
            RowOfSession(part, task,
                SessionIdOf(part, query, findBackgroundSessionIdSqlite(query)))
        RowOfTask(part, task) == RowOfQuery(part, task, Query(task))
        RowOf(part, meta) == RowOfTask(part, DelegationOfPart(part, meta.created))
        RowsOfMessage(meta) ==
            LET made == SelectSeq(PartsOfMessage(main.parts, meta.id), IsDelegationPart)
            IN  IF meta.created = NoTime THEN <<>>
                ELSE [i \in 1..Len(made) |-> RowOf(made[i], meta)]
        ordered == ArraySort(main.metas, LAMBDA a, b : CreatedOrZero(a) > CreatedOrZero(b))
    IN  CollectRows([i \in 1..Len(ordered) |-> RowsOfMessage(ordered[i])], 1, <<>>)

-----------------------------------------------------------------------------
(* Tool call rows *)

MAX_TOOL_CALL_MESSAGES == 200
MAX_TOOL_CALLS == 300

RECURSIVE Flatten(_)
Flatten(seqs) ==
    IF seqs = <<>> THEN <<>>
    ELSE IF Len(seqs) = 1 THEN seqs[1] \o <<>>
    ELSE Flatten(SubSeq(seqs, 1, Len(seqs) \div 2))
           \o Flatten(SubSeq(seqs, Len(seqs) \div 2 + 1, Len(seqs)))

\* readSessionExistsSqlite: a row of the session table has the id
readSessionExistsSqlite(allSessions, sessionId) ==
    \E i \in 1..Len(allSessions) : allSessions[i].id = sessionId

\* a row that carries the part's output along
ToolCallRowWithOutput(sessionId, meta, part) ==
    [sessionId   |-> sessionId,
     messageId   |-> meta.id,
     callId      |-> part.callID,
     tool        |-> part.tool,
     status      |-> part.status,
     output      |-> part.output,
     createdAtMs |-> meta.created]

\* calls.push({...}) less the sort key
ToolCallRow(sessionId, meta, part) ==
    [sessionId   |-> sessionId,
     messageId   |-> meta.id,
     callId      |-> part.callID,
     tool        |-> part.tool,
     status      |-> part.status,
     createdAtMs |-> meta.created]

\* newest message first, then message id, then call id
ToolCallBefore(a, b) ==
    IF a.createdAtMs # b.createdAtMs THEN a.createdAtMs > b.createdAtMs
    ELSE IF a.messageId # b.messageId THEN LocaleLess(a.messageId, b.messageId)
    ELSE LocaleLess(a.callId, b.callId)

\* deriveToolCallsSqlite
deriveToolCallsSqlite(allSessions, allMessages, allParts, sessionId) ==
    LET metas == readRecentMessageMetasSqlite(allMessages, sessionId, MAX_TOOL_CALL_MESSAGES)
        found == readToolPartsForMessagesSqlite(allParts, {metas[i].id : i \in 1..Len(metas)})
        calls == Flatten([i \in 1..Len(metas) |->
                    LET own == PartsOfMessage(found, metas[i].id)
                    IN  [k \in 1..Len(own) |-> ToolCallRow(sessionId, metas[i], own[k])]])
    IN  IF metas = <<>>
        THEN [toolCalls |-> <<>>, truncated |-> FALSE,
              sessionExists |-> readSessionExistsSqlite(allSessions, sessionId)]
        ELSE [toolCalls     |-> Take(ArraySort(calls, ToolCallBefore), MAX_TOOL_CALLS),
              truncated     |-> Len(metas) >= MAX_TOOL_CALL_MESSAGES \/ Len(calls) > MAX_TOOL_CALLS,
              sessionExists |-> TRUE]

\* deriveToolCalls of the files backend: the same rows from the session's
\* message and part files
deriveToolCalls(allMessages, allParts, sessionId) ==
    LET metas == readRecentMessageMetas(MessagesOfSession(allMessages, sessionId),
                                        MAX_TOOL_CALL_MESSAGES)
        calls == Flatten([i \in 1..Len(metas) |->
                    LET own == readToolPartsForMessage(allParts, metas[i].id)
                    IN  [k \in 1..Len(own) |->
                            [sessionId   |-> sessionId,
                             messageId   |-> metas[i].id,
                             callId      |-> own[k].callID,
                             tool        |-> own[k].tool,
                             status      |-> IF own[k].status \in ToolStatuses
                                             THEN own[k].status ELSE "unknown",
                             createdAtMs |-> metas[i].created]]])
    IN  [toolCalls |-> Take(ArraySort(calls, ToolCallBefore), MAX_TOOL_CALLS),
         truncated |-> Len(metas) >= MAX_TOOL_CALL_MESSAGES \/ Len(calls) > MAX_TOOL_CALLS]

-----------------------------------------------------------------------------
(* Redaction: a store whose tool parts carry payload (state.output,
   state.error, input keys the derivation does not name), and its twin, the
   same store with every payload blanked.  Two stores that differ only in
   payload have the same twin, so outputs that agree with the twin's agree
   with each other. *)

MaxPayloadParts == 2

\* the child session of the main session
ChildId == MainId + 1

Payloads ==
    {[output |-> NoStr, error |-> NoStr, other |-> NoStr],
     [output |-> "secret output", error |-> "secret error", other |-> "secret input"]}

\* a background delegation, a synchronous one that resumes the child, a tool
\* that delegates nothing
PayloadPartKinds == {"background", "resumed", "plain"}

PayloadPart(slot, shape) ==
    [StoredPart(slot, shape.messageID, shape.status) EXCEPT
        !.tool   = IF shape.kind = "background" THEN "task"
                   ELSE IF shape.kind = "resumed" THEN "delegate_task" ELSE "bash",
        !.input  = IF shape.kind = "plain" THEN [NoInput EXCEPT !.other = shape.payload.other]
                   ELSE [run_in_background |-> IF shape.kind = "background"
                                                THEN "true" ELSE "false",
                         description       |-> <<"scan">>,
                         subagent_type     |-> <<"explore">>,
                         category          |-> NoText,
                         resume            |-> IF shape.kind = "resumed" THEN ChildId ELSE NoId,
                         other             |-> shape.payload.other],
        !.output = shape.payload.output,
        !.error  = shape.payload.error]

PayloadPartShapes ==
    [messageID : {MainId, ChildId}, status : {"running", "completed"},
     kind : PayloadPartKinds, payload : Payloads]

\* the store with every payload blanked
Twin(allParts) ==
    [i \in 1..Len(allParts) |->
        [allParts[i] EXCEPT !.output = NoStr, !.error = NoStr, !.input.other = NoStr]]

\* everything the two backends derive of the main session
DerivedOutputs(allParts) ==
    [view            |-> getMainSessionView(messages, allParts, MainId, NoStr, nowMs),
     viewSqlite      |-> getMainSessionViewSqlite(messages, allParts, MainId, NoStr, nowMs),
     tasks           |-> deriveBackgroundTasks(sessions, messages, allParts, MainId, nowMs),
     tasksSqlite     |-> deriveBackgroundTasksSqlite(sessions, messages, allParts, MainId, nowMs),
     toolCalls       |-> deriveToolCalls(messages, allParts, MainId),
     toolCallsSqlite |-> deriveToolCallsSqlite(sessions, messages, allParts, MainId)]

NoOutputs == [view |-> NoView]

InitRedact ==
    /\ \E title \in {<<"Background: ", "scan">>, <<"other">>} :
          sessions = <<ChildSession(MainId, NoId, 10, <<"main">>),
                       ChildSession(ChildId, MainId, 1500, title)>>
    /\ messages = <<StoredMessage(MainId, MainId, "done", 1000),
                    StoredMessage(ChildId, ChildId, "done", 2000)>>
    /\ \E n \in 0..MaxPayloadParts : \E shape \in [1..n -> PayloadPartShapes] :
          parts = [i \in 1..n |-> PayloadPart(i, shape[i])]
    /\ nowMs \in {3000, 60000}
    /\ fsys = <<>>
    /\ call = [mainSessionId |-> MainId]
    /\ result = [stored |-> NoOutputs, twin |-> NoOutputs]
    /\ pc = "stored"

DeriveOutputs ==
    /\ pc = "stored"
    /\ result' = [result EXCEPT !.stored = DerivedOutputs(parts)]
    /\ pc' = "derived"
    /\ UNCHANGED <<sessions, messages, parts, nowMs, fsys, call>>

DeriveOutputsOfTwin ==
    /\ pc = "derived"
    /\ result' = [result EXCEPT !.twin = DerivedOutputs(Twin(parts))]
    /\ pc' = "twin_derived"
    /\ UNCHANGED <<sessions, messages, parts, nowMs, fsys, call>>

NextRedact == DeriveOutputs \/ DeriveOutputsOfTwin

SpecRedact == InitRedact /\ [][NextRedact]_vars

-----------------------------------------------------------------------------
(* Claims about redaction *)

\* C4: two stores that differ only in state.output, state.error or input
\* keys other than run_in_background, description, subagent_type, category
\* and resume give the same main session view, the same background task rows
\* and the same tool call rows in both backends.
C4_PayloadNeverEchoed == pc = "twin_derived" => result.stored = result.twin

\* C4: a store with payload on a delegation part that is in flight, every
\* kind of output having something to show
C4_Witness ==
    /\ pc = "twin_derived"
    /\ \E i \in 1..Len(parts) :
          /\ parts[i].output # NoStr
          /\ parts[i].input.other # NoStr
          /\ parts[i].messageID = MainId
          /\ parts[i].status = "running"
          /\ IsDelegationPart(parts[i])
    /\ result.stored.view.status = "running_tool"
    /\ result.stored.viewSqlite.status = "running_tool"
    /\ result.stored.tasks # <<>>
    /\ result.stored.tasksSqlite # <<>>
    /\ result.stored.toolCalls.toolCalls # <<>>
    /\ result.stored.toolCallsSqlite.toolCalls # <<>>

-----------------------------------------------------------------------------
(* Background task rows of a main session: the delegation parts of its one
   message, the child sessions, their messages and tool parts *)

\* most delegation parts the main message carries
MaxTaskParts == 2

\* a second child session, without messages
OtherChildId == ChildId + 1

\* time.created of the child's newest message
ChildUpdatedAt == StartedAt + WindowBeforeMs

LongText(n) == [i \in 1..n |-> "x"]

NoRows == <<[id |-> NoId]>>

\* a tool part of the main message with the given tool and input
TaskPart(slot, shape) ==
    [StoredPart(slot, MainId, "completed") EXCEPT
        !.tool   = shape.tool,
        !.input  = [run_in_background |-> shape.run_in_background,
                    description       |-> shape.description,
                    subagent_type     |-> shape.subagent_type,
                    category          |-> shape.category,
                    resume            |-> shape.resume,
                    other             |-> NoStr],
        !.metadataSessionId = shape.metadataSessionId]

\* delegations of "scan", in the background or synchronous, resuming the
\* child, the session without messages, or nothing
SyncShapes ==
    [tool : {"task"}, run_in_background : {"true", "false"}, description : {<<"scan">>},
     subagent_type : {NoText}, category : {NoText},
     resume : {NoId, ChildId, OtherChildId}, metadataSessionId : {NoId}]

\* every tool, run_in_background and description a part can carry
GateShapes ==
    [tool : {"task", "delegate_task", "bash"}, run_in_background : {"true", "false", NoStr},
     description : {NoText, <<"\t">>, <<"\t", "scan", "\t">>, LongText(DESCRIPTION_MAX + 1)},
     subagent_type : {<<"explore">>}, category : {NoText},
     resume : {NoId}, metadataSessionId : {NoId}]

\* every agent label
LabelShapes ==
    [tool : {"task"}, run_in_background : {"true"}, description : {<<"scan">>},
     subagent_type : {NoText, <<"\t">>, <<"explore", "\t">>, LongText(AGENT_MAX + 1)},
     category : {NoText, <<"quick">>, LongText(AGENT_MAX + 1)},
     resume : {NoId}, metadataSessionId : {NoId}]

\* a task part without description whose state.metadata.sessionId names the child
MetadataShapes ==
    [tool : {"task"}, run_in_background : {"true", "false"}, description : {NoText},
     subagent_type : {<<"explore">>}, category : {NoText},
     resume : {NoId}, metadataSessionId : {ChildId}]

\* the child's messages by time.created, in the order they were written
ChildMessageTimes == {<<>>, <<0>>, <<ChildUpdatedAt>>, <<ChildUpdatedAt, 0>>}

TaskNows == {WindowBeforeMs, ChildUpdatedAt + RunningMs, ChildUpdatedAt + RunningMs + 1}

\* the main session's message, then the child's
TaskMessages(times) ==
    <<StoredMessage(MainId, MainId, "done", StartedAt)>>
        \o [i \in 1..Len(times) |-> StoredMessage(MainId + i, ChildId, "done", times[i])]

\* the delegation parts of the main message, then the tool parts of the
\* child's first message
TaskParts(shapes, childTools) ==
    [i \in 1..Len(shapes) |-> TaskPart(i, shapes[i])]
        \o [k \in 1..childTools |->
               [StoredPart(Len(shapes) + k, MainId + 1, "completed") EXCEPT !.tool = "read"]]

\* stores that vary the child sessions, their messages and the clock
InitTaskSessions ==
    /\ \E title \in {<<"Background: ", "scan">>, <<"other">>},
          created \in {StartedAt, StartedAt + WindowAfterMs + 1},
          others \in {<<>>, <<ChildSession(OtherChildId, MainId, ChildUpdatedAt,
                                           <<"Task: ", "scan">>)>>} :
          sessions = <<ChildSession(MainId, NoId, 10, <<"main">>),
                       ChildSession(ChildId, MainId, created, title)>> \o others
    /\ \E times \in ChildMessageTimes, childTools \in 0..1 :
          /\ messages = TaskMessages(times)
          /\ \E n \in 0..MaxTaskParts : \E shapes \in [1..n -> SyncShapes] :
                parts = TaskParts(shapes, childTools)
    /\ nowMs \in TaskNows

\* stores that vary the tool part
InitTaskParts ==
    /\ sessions = <<ChildSession(MainId, NoId, 10, <<"main">>),
                    ChildSession(ChildId, MainId, StartedAt, <<"Background: ", "scan">>)>>
    /\ messages = TaskMessages(<<ChildUpdatedAt>>)
    /\ \E shape \in GateShapes \cup LabelShapes \cup MetadataShapes :
          \E more \in {<<>>, <<CHOOSE g \in SyncShapes : g.resume = NoId>>} :
             parts = TaskParts(<<shape>> \o more, 1)
    /\ nowMs = ChildUpdatedAt + RunningMs

InitTasks ==
    /\ InitTaskSessions \/ InitTaskParts
    /\ fsys = <<>>
    /\ call = [mainSessionId |-> MainId]
    /\ result = [files |-> NoRows, sqlite |-> NoRows]
    /\ pc = "stored"

DeriveBackgroundTasks ==
    /\ pc = "stored"
    /\ result' = [result EXCEPT !.files =
                     deriveBackgroundTasks(sessions, messages, parts, call.mainSessionId, nowMs)]
    /\ pc' = "files_derived"
    /\ UNCHANGED <<sessions, messages, parts, nowMs, fsys, call>>

DeriveBackgroundTasksSqlite ==
    /\ pc = "files_derived"
    /\ result' = [result EXCEPT !.sqlite =
                     deriveBackgroundTasksSqlite(sessions, messages, parts,
                                                 call.mainSessionId, nowMs)]
    /\ pc' = "derived"
    /\ UNCHANGED <<sessions, messages, parts, nowMs, fsys, call>>

NextTasks == DeriveBackgroundTasks \/ DeriveBackgroundTasksSqlite

SpecTasks == InitTasks /\ [][NextTasks]_vars

-----------------------------------------------------------------------------
(* Claims about background task rows *)

\* the tool parts of the main session's message, in part order
MainTaskParts == SelectSeq(parts, LAMBDA p : p.messageID = MainId)

RowsOfPart(rows, p) == {r \in Range(rows) : r.id = p.callID}

HasMessages(sessionId) == \E m \in Range(messages) : m.sessionID = sessionId

\* delegate_task or task, a boolean run_in_background, a description that is
\* a string and not empty once trimmed
Qualifies(p) ==
    /\ p.tool \in {"delegate_task", "task"}
    /\ p.input.run_in_background \in {"true", "false"}
    /\ p.input.description # NoText
    /\ trim(p.input.description) # <<>>

\* the correlation a part asks for
QueryOfPart(p) ==
    [allSessionMetas |-> sessions,
     parentSessionId |-> MainId,
     description     |-> trim(p.input.description),
     subagentType    |-> DelegationOfPart(p, StartedAt).subagentType,
     category        |-> DelegationOfPart(p, StartedAt).category,
     startedAt       |-> StartedAt]

\* the resumed session if it has a message, else the background-style
\* correlation, else the retry with the Task-first titles
SessionIdAsSpecified(p) ==
    IF p.input.resume # NoId /\ HasMessages(p.input.resume) THEN p.input.resume
    ELSE IF findBackgroundSessionId(QueryOfPart(p)) # NoId
         THEN findBackgroundSessionId(QueryOfPart(p))
         ELSE findTaskSessionId(QueryOfPart(p))

SyncRowsAsSpecified(rows) ==
    \A p \in Range(MainTaskParts) :
        (Qualifies(p) /\ p.input.run_in_background = "false")
            => /\ RowsOfPart(rows, p) # {}
               /\ \A r \in RowsOfPart(rows, p) : r.sessionId = SessionIdAsSpecified(p)

LatestCreated(sessionId) ==
    IF ~HasMessages(sessionId) THEN NoTime
    ELSE CHOOSE t \in {m.created : m \in {x \in Range(messages) : x.sessionID = sessionId}} :
            \A m \in Range(messages) : m.sessionID = sessionId => m.created <= t

\* the tool parts of the messages of a session
ToolPartCount(sessionId) ==
    Cardinality({i \in 1..Len(parts) :
        /\ parts[i].type = "tool"
        /\ \E m \in Range(messages) :
              m.sessionID = sessionId /\ m.id = parts[i].messageID})

StatusAsSpecified(sessionId) ==
    IF sessionId = NoId THEN "queued"
    ELSE IF LatestCreated(sessionId) # NoTime /\ nowMs - LatestCreated(sessionId) <= 15000
         THEN "running"
    ELSE IF ToolPartCount(sessionId) > 0 THEN "completed"
    ELSE "unknown"

RowStatusAsSpecified(r) ==
    /\ r.status = StatusAsSpecified(r.sessionId)
    /\ r.status # "error"
    /\ r.status = "queued" <=> r.sessionId = NoId
    /\ r.toolCalls = IF r.sessionId = NoId THEN NoTime ELSE ToolPartCount(r.sessionId)

DerivedRows == Range(result.files) \cup Range(result.sqlite)

\* C14: a row without child session is queued with toolCalls null; with one
\* it is running when now - lastUpdateAt <= 15000 (lastUpdateAt the newest
\* time.created of the child's messages), else completed when the child has
\* tool parts, else unknown; never error; toolCalls counts the tool parts.
C14_RowStatus ==
    pc = "derived" => \A r \in DerivedRows : RowStatusAsSpecified(r)

\* the same for the rows whose child was not last updated at time 0
C14_RowStatusNonZeroTime ==
    pc = "derived" =>
        \A r \in DerivedRows :
            (r.sessionId = NoId \/ LatestCreated(r.sessionId) # 0) => RowStatusAsSpecified(r)

Cut(text, maxLen) == IF Len(text) <= maxLen THEN text ELSE SubSeq(text, 1, maxLen)

\* the trimmed text, NoText for a missing or blank one
Label(text) == IF text = NoText \/ trim(text) = <<>> THEN NoText ELSE trim(text)

\* id, description and agent a qualifying part must give its row
FaceAsSpecified(p) ==
    [id          |-> p.callID,
     description |-> Cut(trim(p.input.description), 120),
     agent       |-> IF Label(p.input.subagent_type) # NoText
                     THEN Cut(Label(p.input.subagent_type), 30)
                     ELSE IF Label(p.input.category) # NoText
                          THEN <<"sisyphus-junior (">> \o Cut(Label(p.input.category), 30)
                                   \o <<")">>
                          ELSE <<"unknown">>]

FacesOf(rows) ==
    [i \in 1..Len(rows) |->
        [id |-> rows[i].id, description |-> rows[i].description, agent |-> rows[i].agent]]

FacesAsSpecified ==
    LET made == SelectSeq(MainTaskParts, Qualifies)
    IN  [i \in 1..Len(made) |-> FaceAsSpecified(made[i])]

C17_RowFromMetadataSession ==
    pc = "derived" =>
        \A p \in Range(MainTaskParts) :
            \A m \in Range(sessions) :
                (/\ p.tool \in {"delegate_task", "task"}
                 /\ p.input.run_in_background \in {"true", "false"}
                 /\ p.input.description = NoText
                 /\ p.metadataSessionId = m.id)
                    => \E r \in Range(result.sqlite) :
                          /\ r.id = p.callID
                          /\ r.sessionId = m.id
                          /\ r.description = m.title
                          /\ r.agent = p.input.subagent_type

-----------------------------------------------------------------------------
(* The cap on the rows: a main session of two messages, each carrying some
   delegation parts, and no child session *)

\* how far the parts of a message may exceed the cap
MaxOverCap == 1

\* most parts of the older message
MaxOlderParts == 2

OlderMessageId == MainId
NewerMessageId == MainId + 1

CapShape == CHOOSE g \in SyncShapes : g.run_in_background = "true" /\ g.resume = NoId

\* newerParts delegations in the newer message, olderParts in the older
CapParts(newerParts, olderParts) ==
    [i \in 1..newerParts |-> [TaskPart(i, CapShape) EXCEPT !.messageID = NewerMessageId]]
        \o [i \in 1..olderParts |-> TaskPart(newerParts + i, CapShape)]

InitCap ==
    /\ sessions = <<ChildSession(MainId, NoId, 10, <<"main">>)>>
    /\ \E olderFirst \in BOOLEAN :
          LET older == StoredMessage(OlderMessageId, MainId, "done", StartedAt)
              newer == StoredMessage(NewerMessageId, MainId, "done", StartedAt + 1)
          IN  messages = IF olderFirst THEN <<older, newer>> ELSE <<newer, older>>
    /\ \E newerParts \in 0..(MaxRows + MaxOverCap), olderParts \in 0..MaxOlderParts :
          parts = CapParts(newerParts, olderParts)
    /\ nowMs = StartedAt + 1
    /\ fsys = <<>>
    /\ call = [mainSessionId |-> MainId]
    /\ result = [files |-> NoRows, sqlite |-> NoRows]
    /\ pc = "stored"

\* the derivations are those of SpecTasks
SpecCap == InitCap /\ [][NextTasks]_vars

\* the message a row's part belongs to
MessageOfRow(r) == (CHOOSE p \in Range(parts) : p.callID = r.id).messageID

\* the parts without a row belong to messages older than every message that
\* gave a row
DroppedAreOlder(rows) ==
    \A p \in Range(parts) :
        RowsOfPart(rows, p) = {}
            => \A r \in Range(rows) : p.messageID = OlderMessageId
                                       /\ MessageOfRow(r) = NewerMessageId

\* C15: neither derivation returns more than 50 rows, whatever the main
\* session holds, and the parts left out belong to messages older than
\* every message a row came from.
C15_AtMostFiftyRows ==
    pc = "derived" =>
        /\ Len(result.files) <= 50
        /\ Len(result.sqlite) <= 50
        /\ DroppedAreOlder(result.files)
        /\ DroppedAreOlder(result.sqlite)

\* the cap as the scan applies it: messages are taken whole, newest first,
\* until 50 rows or more are collected
ScannedWhole(rows) ==
    LET newer == SelectSeq(parts, LAMBDA p : p.messageID = NewerMessageId)
        older == SelectSeq(parts, LAMBDA p : p.messageID = OlderMessageId)
        kept  == IF Len(newer) >= 50 THEN newer ELSE newer \o older
    IN  [i \in 1..Len(rows) |-> rows[i].id] = [i \in 1..Len(kept) |-> kept[i].callID]

C15_WholeMessagesNewestFirst ==
    pc = "derived" =>
        /\ ScannedWhole(result.files)
        /\ ScannedWhole(result.sqlite)
        /\ DroppedAreOlder(result.files)
        /\ DroppedAreOlder(result.sqlite)

-----------------------------------------------------------------------------
(* Time-series activity of a main session and its child sessions *)

\* String.prototype.toLowerCase on the symbols that carry a capital
toLowerCase(text) ==
    [i \in 1..Len(text) |->
        IF text[i] = "S" THEN "s"
        ELSE IF text[i] = "P" THEN "p"
        ELSE IF text[i] = "A" THEN "a"
        ELSE IF text[i] = "SQLITE_" THEN "sqlite_"
        ELSE IF text[i] = "BUSY" THEN "busy"
        ELSE IF text[i] = "CORRUPT" THEN "corrupt"
        ELSE text[i]]

\* canonicalizeAgent, with the prefix test left case-sensitive
canonicalizeAgentCased(agent) ==
    IF agent = NoText THEN "other"
    ELSE IF trim(agent) = <<>> THEN "other"
    ELSE IF startsWith(trim(agent), <<"s", "isyphus", "-junior">>) THEN "sisyphus"
    ELSE IF startsWith(trim(agent), <<"s", "isyphus">>) THEN "sisyphus"
    ELSE IF startsWith(trim(agent), <<"p", "rometheus">>) THEN "prometheus"
    ELSE IF startsWith(trim(agent), <<"a", "tlas">>) THEN "atlas"
    ELSE "other"

\* canonicalizeAgent
canonicalizeAgent(agent) ==
    IF agent = NoText THEN "other"
    ELSE IF trim(agent) = <<>> THEN "other"
    ELSE IF startsWith(toLowerCase(trim(agent)), <<"s", "isyphus", "-junior">>) THEN "sisyphus"
    ELSE IF startsWith(toLowerCase(trim(agent)), <<"s", "isyphus">>) THEN "sisyphus"
    ELSE IF startsWith(toLowerCase(trim(agent)), <<"p", "rometheus">>) THEN "prometheus"
    ELSE IF startsWith(toLowerCase(trim(agent)), <<"a", "tlas">>) THEN "atlas"
    ELSE "other"

\* addToBucket: bucketIndex counts from 0; an index outside the array is dropped
addToBucket(values, bucketIndex, count) ==
    IF bucketIndex < 0 \/ bucketIndex >= Len(values) THEN values
    ELSE [values EXCEPT ![bucketIndex + 1] = @ + count]

\* -Infinity: below every time
MinusInfinity == 0 - 1000000

\* getCreated
getCreated(meta) == IF meta.created = NoTime THEN MinusInfinity ELSE meta.created

\* zeroBuckets
zeroBuckets(size) == [i \in 1..size |-> 0]

\* the ids and labels of the five series
SERIES_ORDER ==
    <<"overall-main", "agent:sisyphus", "agent:prometheus", "agent:atlas",
      "background-total">>

\* the number of child sessions whose activity is read
ChildSessionLimit == 25

\* the body of bucketSession's loop for one message inside the window
AddToolCount(series, bucketIndex, toolCount, agent, includePerAgent, isBackground) ==
    [overall    |-> addToBucket(series.overall, bucketIndex, toolCount),
     background |-> IF isBackground
                    THEN addToBucket(series.background, bucketIndex, toolCount)
                    ELSE series.background,
     sisyphus   |-> IF includePerAgent /\ agent = "sisyphus"
                    THEN addToBucket(series.sisyphus, bucketIndex, toolCount)
                    ELSE series.sisyphus,
     prometheus |-> IF includePerAgent /\ agent = "prometheus"
                    THEN addToBucket(series.prometheus, bucketIndex, toolCount)
                    ELSE series.prometheus,
     atlas      |-> IF includePerAgent /\ agent = "atlas"
                    THEN addToBucket(series.atlas, bucketIndex, toolCount)
                    ELSE series.atlas]

\* bucketSession's loop over the messages, newest first: it ends at the first
\* message created before the window and passes over those created at or
\* after the anchor and those without tool parts
RECURSIVE BucketMessages(_, _, _, _, _)
BucketMessages(ordered, i, session, how, series) ==
    IF i > Len(ordered) THEN series
    ELSE IF getCreated(ordered[i]) < how.startMs THEN series
    ELSE IF getCreated(ordered[i]) >= how.anchorMs
         THEN BucketMessages(ordered, i + 1, session, how, series)
    ELSE IF Len(PartsOfMessage(session.parts, ordered[i].id)) <= 0
         THEN BucketMessages(ordered, i + 1, session, how, series)
    ELSE BucketMessages(ordered, i + 1, session, how,
             AddToolCount(series,
                          (getCreated(ordered[i]) - how.startMs) \div how.bucketMs,
                          Len(PartsOfMessage(session.parts, ordered[i].id)),
                          canonicalizeAgent(ordered[i].agent),
                          how.includePerAgent, how.isBackground))

\* bucketSession: the reads of the session succeed
bucketSession(allMessages, allParts, sessionId, how, series) ==
    LET Bucket(session) ==
            [ok     |-> TRUE,
             series |-> BucketMessages(
                            ArraySort(session.metas, LAMBDA a, b :
                                \/ getCreated(a) > getCreated(b)
                                \/ (getCreated(a) = getCreated(b)
                                       /\ LocaleLess(a.id, b.id))),
                            1, session, how, series)]
    IN  Bucket(readSessionMessagesAndParts(allMessages, allParts, sessionId, RecentLimit))

\* the child sessions read: those of the main session, most recently updated
\* first, then by id, cut at the limit
childSessionsOf(allSessions, mainSessionId) ==
    LET children == SelectSeq(readAllSessionMetasSqlite(allSessions),
                              LAMBDA meta : meta.parentID = mainSessionId)
        ordered  == ArraySort(children, LAMBDA a, b :
                        \/ a.updated > b.updated
                        \/ (a.updated = b.updated /\ LocaleLess(a.id, b.id)))
    IN  [i \in 1..Min(ChildSessionLimit, Len(ordered)) |-> ordered[i].id]

\* the loop over the child sessions, which ends at the first one that
\* cannot be read
RECURSIVE BucketChildren(_, _, _, _, _, _)
BucketChildren(allMessages, allParts, childSessions, i, how, series) ==
    IF i > Len(childSessions) THEN [ok |-> TRUE, series |-> series]
    ELSE LET Rest(childResult) ==
                 IF ~childResult.ok THEN childResult
                 ELSE BucketChildren(allMessages, allParts, childSessions, i + 1, how,
                                     childResult.series)
         IN  Rest(bucketSession(allMessages, allParts, childSessions[i], how, series))

\* deriveTimeSeriesActivitySqlite
deriveTimeSeriesActivitySqlite(allSessions, allMessages, allParts, opts) ==
    LET buckets  == opts.windowMs \div opts.bucketMs
        anchorMs == (opts.nowMs \div opts.bucketMs) * opts.bucketMs
        how      == [startMs |-> anchorMs - opts.windowMs, anchorMs |-> anchorMs,
                     bucketMs |-> opts.bucketMs]
        zero     == [overall    |-> zeroBuckets(buckets),
                     sisyphus   |-> zeroBuckets(buckets),
                     prometheus |-> zeroBuckets(buckets),
                     atlas      |-> zeroBuckets(buckets),
                     background |-> zeroBuckets(buckets)]
        OfMain(mainResult) ==
            IF ~mainResult.ok THEN mainResult
            ELSE BucketChildren(allMessages, allParts,
                     childSessionsOf(allSessions, opts.mainSessionId), 1,
                     how @@ [includePerAgent |-> FALSE, isBackground |-> TRUE],
                     mainResult.series)
        Payload(series) ==
            [windowMs    |-> opts.windowMs,
             bucketMs    |-> opts.bucketMs,
             buckets     |-> buckets,
             anchorMs    |-> anchorMs,
             serverNowMs |-> opts.nowMs,
             series      |-> <<[id |-> SERIES_ORDER[1], values |-> series.overall],
                               [id |-> SERIES_ORDER[2], values |-> series.sisyphus],
                               [id |-> SERIES_ORDER[3], values |-> series.prometheus],
                               [id |-> SERIES_ORDER[4], values |-> series.atlas],
                               [id |-> SERIES_ORDER[5], values |-> series.background]>>]
    IN  IF opts.mainSessionId = NoId THEN Payload(zero)
        ELSE Payload(OfMain(
                 bucketSession(allMessages, allParts, opts.mainSessionId,
                     how @@ [includePerAgent |-> TRUE, isBackground |-> FALSE],
                     zero)).series)

\* messages of the main session in a window case
MaxSeriesMessages == 2

\* child sessions beyond the limit
MaxExtraChildren == 1

\* creation times around and inside the windows
SeriesTimes == 3..10

SeriesWindows == {1, 4, 5, 6}

SeriesBuckets == {2, 3}

SeriesNows == {10, 11}

\* what the agent field of a message can hold
SeriesAgents ==
    {NoText, <<"S", "isyphus">>, <<"s", "isyphus", "-junior">>,
     <<"P", "rometheus", " (planner)">>, <<"a", "tlas">>,
     <<"build">>, <<"x", "a", "tlas">>, <<"\t">>}

\* a message of a session with its agent
SeriesMessage(id, sessionID, created, agent) ==
    [StoredMessage(id, sessionID, "done", created) EXCEPT !.agent = agent]

\* count tool parts of a message
SeriesParts(messageID, count) ==
    [i \in 1..count |-> StoredPart(messageID * 4 + i, messageID, "completed")]

\* the main session alone, its messages anywhere around the window
InitSeriesWindow ==
    /\ sessions = <<StoredSession(MainId, "main", 10)>>
    /\ \E n \in 0..MaxSeriesMessages :
          \E created \in [1..n -> SeriesTimes], count \in [1..n -> 1..2] :
             /\ messages = [i \in 1..n |-> SeriesMessage(i, MainId, created[i], <<"build">>)]
             /\ parts = Flatten([i \in 1..n |-> SeriesParts(i, count[i])])
    /\ \E windowMs \in SeriesWindows, bucketMs \in SeriesBuckets, now \in SeriesNows :
          /\ nowMs = now
          /\ call = [mainSessionId |-> MainId, nowMs |-> now,
                     windowMs |-> windowMs, bucketMs |-> bucketMs]

\* child number i of the main session: one message inside the window with
\* one tool part, written by a named agent
SeriesChild(i, updated) ==
    [StoredSession(MainId + i, "child", updated) EXCEPT !.parentID = MainId]

\* the main session with one message, and its child sessions, updated one
\* after the other in either direction; a session of another parent
InitSeriesChildren ==
    /\ \E k \in 0..(ChildSessionLimit + MaxExtraChildren), rising \in BOOLEAN,
          agent \in SeriesAgents, created \in {5, 8} :
          /\ sessions = <<StoredSession(MainId, "main", 10)>>
                 \o [i \in 1..k |-> SeriesChild(i, IF rising THEN 100 + i ELSE 200 - i)]
                 \o <<[StoredSession(MainId + k + 1, "child", 300)
                          EXCEPT !.parentID = MainId + 1]>>
          /\ messages = <<SeriesMessage(MainId, MainId, created, agent)>>
                 \o [i \in 1..(k + 1) |->
                        SeriesMessage(MainId + i, MainId + i, 4 + (i % 6), <<"S", "isyphus">>)]
          /\ parts = Flatten([i \in 1..(k + 2) |-> SeriesParts(i, 1)])
    /\ nowMs = 10
    /\ \E mainSessionId \in {MainId, NoId} :
          call = [mainSessionId |-> mainSessionId, nowMs |-> 10,
                  windowMs |-> 6, bucketMs |-> 2]

NoSeries == [buckets |-> 0 - 1]

InitSeries ==
    /\ InitSeriesWindow \/ InitSeriesChildren
    /\ fsys = <<>>
    /\ result = NoSeries
    /\ pc = "stored"

DeriveTimeSeriesActivitySqlite ==
    /\ pc = "stored"
    /\ result' = deriveTimeSeriesActivitySqlite(sessions, messages, parts, call)
    /\ pc' = "derived"
    /\ UNCHANGED <<sessions, messages, parts, nowMs, fsys, call>>

NextSeries == DeriveTimeSeriesActivitySqlite

SpecSeries == InitSeries /\ [][NextSeries]_vars

-----------------------------------------------------------------------------
(* Claims about the time series *)

AnchorMs == (call.nowMs \div call.bucketMs) * call.bucketMs

WindowStartMs == AnchorMs - call.windowMs

InWindow(created) == WindowStartMs <= created /\ created < AnchorMs

BucketOf(created) == (created - WindowStartMs) \div call.bucketMs

\* the child sessions of the main session that the series read: those with
\* fewer than 25 children updated after them
RecentChildIds ==
    LET children == {s \in Range(sessions) :
                        call.mainSessionId # NoId /\ s.parentID = call.mainSessionId}
    IN  {c.id : c \in {c \in children :
                          Cardinality({d \in children : d.updated > c.updated}) < 25}}

LoadedSessionIds ==
    IF call.mainSessionId = NoId THEN {} ELSE {call.mainSessionId} \cup RecentChildIds

\* the tool parts of the messages of the given sessions that were created
\* inside the window
WindowParts(sessionIds) ==
    {i \in 1..Len(parts) :
        \E m \in Range(messages) : /\ m.id = parts[i].messageID
                                   /\ m.sessionID \in sessionIds
                                   /\ InWindow(m.created)}

CreatedOfPart(i) ==
    (CHOOSE m \in Range(messages) : m.id = parts[i].messageID).created

AgentOfPart(i) ==
    (CHOOSE m \in Range(messages) : m.id = parts[i].messageID).agent

\* how many of the given parts fall into bucket b, counted from 0
CountAt(partSet, b) == Cardinality({i \in partSet : BucketOf(CreatedOfPart(i)) = b})

SeriesValues(n) == result.series[n].values

SeriesShape ==
    /\ [n \in 1..Len(result.series) |-> result.series[n].id]
           = <<"overall-main", "agent:sisyphus", "agent:prometheus", "agent:atlas",
               "background-total">>
    /\ \A n \in 1..Len(result.series) :
          Len(SeriesValues(n)) = call.windowMs \div call.bucketMs

OverallCounts ==
    /\ \A i \in WindowParts(LoadedSessionIds) :
          BucketOf(CreatedOfPart(i)) + 1 \in DOMAIN SeriesValues(1)
    /\ \A b \in DOMAIN SeriesValues(1) :
          SeriesValues(1)[b] = CountAt(WindowParts(LoadedSessionIds), b - 1)

\* C18: the payload has the five series in their order, each with
\* floor(windowMs / bucketMs) values, and every tool part of a loaded message
\* created inside [anchorMs - windowMs, anchorMs) is counted once in
\* overall-main, in bucket floor((created - windowStart) / bucketMs), and
\* nothing else is counted, whatever the positive windowMs and bucketMs.
C18_WindowBuckets ==
    pc = "derived" => SeriesShape /\ OverallCounts

\* The same when the window is a whole number of buckets.
C18_WindowBucketsWhole ==
    (pc = "derived" /\ call.windowMs % call.bucketMs = 0) => SeriesShape /\ OverallCounts

\* The shape of the payload alone.
C18_SeriesShape ==
    pc = "derived" => SeriesShape

\* an agent name starts with the given lower-case name, whatever its case
StartsWithName(agent, name) ==
    /\ agent # NoText
    /\ startsWith(toLowerCase(agent), name)

AgentParts(name) ==
    {i \in WindowParts({call.mainSessionId}) : StartsWithName(AgentOfPart(i), name)}

-----------------------------------------------------------------------------
(* Token usage of a main session and its background sessions *)

\* the number of recent messages of a session whose tokens are read
TOKEN_USAGE_MESSAGE_LIMIT == 10000

\* session ids as the caller writes them, and the session each one names
SessionNames == <<"ses_1", "ses_2", "ses_3">>

SessionOfName(id) ==
    IF Len(id) = 1 /\ \E n \in DOMAIN SessionNames : SessionNames[n] = id[1]
    THEN NoId + (CHOOSE n \in DOMAIN SessionNames : SessionNames[n] = id[1])
    ELSE NoId

NoneSeen == [sessionIds |-> <<>>, seen |-> {}]

\* push without the test for an id already seen
pushAgain(pushed, value) ==
    IF value = NoText THEN pushed
    ELSE IF trim(value) = <<>> THEN pushed
    ELSE [sessionIds |-> Append(pushed.sessionIds, trim(value)),
          seen       |-> pushed.seen \cup {trim(value)}]

\* push: a value that is not a string, is blank or was seen is left out
push(pushed, value) ==
    IF value = NoText THEN pushed
    ELSE IF trim(value) = <<>> \/ trim(value) \in pushed.seen THEN pushed
    ELSE [sessionIds |-> Append(pushed.sessionIds, trim(value)),
          seen       |-> pushed.seen \cup {trim(value)}]

RECURSIVE PushAll(_, _, _)
PushAll(pushed, ids, i) ==
    IF i > Len(ids) THEN pushed ELSE PushAll(push(pushed, ids[i]), ids, i + 1)

RECURSIVE SumSeq(_)
SumSeq(s) == IF s = <<>> THEN 0 ELSE Head(s) + SumSeq(Tail(s))

TokenFields == <<"input", "output", "reasoning", "cacheRead", "cacheWrite">>

\* aggregateTokenUsage: the assistant messages grouped by
\* "providerID/modelID", groups in the order of their first message; each of
\* the five counts summed per group, and total their sum
aggregateTokenUsage(metas) ==
    LET assistants == SelectSeq(metas, LAMBDA m : m.role = "assistant")
        ModelOf(m) == <<m.providerID, "/", m.modelID>>
        first == SelectSeq([i \in 1..Len(assistants) |-> i], LAMBDA i :
                     \A j \in 1..(i - 1) : ModelOf(assistants[j]) # ModelOf(assistants[i]))
        Sum(model, field) ==
            SumSeq([i \in 1..Len(assistants) |->
                       IF ModelOf(assistants[i]) = model
                       THEN assistants[i].tokens[field] ELSE 0])
        RowOf(model) ==
            [model      |-> model,
             input      |-> Sum(model, "input"),
             output     |-> Sum(model, "output"),
             reasoning  |-> Sum(model, "reasoning"),
             cacheRead  |-> Sum(model, "cacheRead"),
             cacheWrite |-> Sum(model, "cacheWrite"),
             total      |-> SumSeq([f \in 1..Len(TokenFields) |-> Sum(model, TokenFields[f])])]
    IN  [rows |-> [k \in 1..Len(first) |-> RowOf(ModelOf(assistants[first[k]]))]]

\* deriveTokenUsageSqlite: backgroundSessionIds is the empty list when missing
deriveTokenUsageSqlite(allMessages, opts) ==
    LET sessionIds == PushAll(push(NoneSeen, opts.mainSessionId),
                              opts.backgroundSessionIds, 1).sessionIds
    IN  aggregateTokenUsage(
            Flatten([i \in 1..Len(sessionIds) |->
                        readRecentMessageMetasSqlite(allMessages,
                            SessionOfName(sessionIds[i]), TOKEN_USAGE_MESSAGE_LIMIT)]))

\* messages in the store of a token usage case
MaxTokenMessages == 2

TokenCounts ==
    {[input |-> 1, output |-> 2, reasoning |-> 4, cacheRead |-> 8, cacheWrite |-> 16],
     [input |-> 32, output |-> 0, reasoning |-> 0, cacheRead |-> 64, cacheWrite |-> 0]}

TokenModels == {<<"openai", "gpt">>, <<"anthropic", "claude">>}

\* a message with its model and token counts; user messages carry them too
TokenMessage(id, sessionID, role, model, tokens) ==
    [StoredMessage(id, sessionID, IF role = "user" THEN "user" ELSE "done", 1000 + id)
        EXCEPT !.providerID = model[1], !.modelID = model[2]] @@ [tokens |-> tokens]

\* the lists of background session ids a caller passes
BackgroundIdLists ==
    {<<>>,
     <<<<"ses_2">>>>,
     <<<<"ses_2">>, <<"ses_2">>>>,
     <<<<"ses_2">>, <<"ses_1">>>>,
     <<<<"\t", "ses_2">>, <<"ses_3">>, <<"ses_2", "\t">>>>,
     <<NoText, <<"\t">>, <<"ses_3">>>>}

NoUsage == [rows |-> <<[model |-> NoText]>>]

InitTokens ==
    /\ sessions = <<StoredSession(MainId, "main", 10),
                    [StoredSession(MainId + 1, "child", 10) EXCEPT !.parentID = MainId],
                    [StoredSession(MainId + 2, "child", 10) EXCEPT !.parentID = MainId]>>
    /\ \E n \in 0..MaxTokenMessages :
          \E sessionID \in [1..n -> MainId..(MainId + 2)],
             role \in [1..n -> Roles],
             model \in [1..n -> TokenModels],
             tokens \in [1..n -> TokenCounts] :
             messages = [i \in 1..n |->
                            TokenMessage(i, sessionID[i], role[i], model[i], tokens[i])]
    /\ parts = <<>>
    /\ nowMs = 2000
    /\ fsys = <<>>
    /\ \E mainSessionId \in {<<"ses_1">>, NoText}, ids \in BackgroundIdLists :
          call = [mainSessionId |-> mainSessionId, backgroundSessionIds |-> ids]
    /\ result = NoUsage
    /\ pc = "stored"

DeriveTokenUsageSqlite ==
    /\ pc = "stored"
    /\ result' = deriveTokenUsageSqlite(messages, call)
    /\ pc' = "derived"
    /\ UNCHANGED <<sessions, messages, parts, nowMs, fsys, call>>

NextTokens == DeriveTokenUsageSqlite

SpecTokens == InitTokens /\ [][NextTokens]_vars

-----------------------------------------------------------------------------
(* Claims about token usage *)

\* the sessions the call names, each once
NamedSessions ==
    {SessionOfName(trim(id)) :
        id \in {v \in {call.mainSessionId} \cup Range(call.backgroundSessionIds) :
                   v # NoText}} \ {NoId}

\* the assistant messages of the named sessions with the given model
GroupOf(model) ==
    {i \in 1..Len(messages) : /\ messages[i].sessionID \in NamedSessions
                              /\ messages[i].role = "assistant"
                              /\ <<messages[i].providerID, "/", messages[i].modelID>> = model}

RECURSIVE SumOver(_, _)
SumOver(group, field) ==
    IF group = {} THEN 0
    ELSE LET i == CHOOSE i \in group : TRUE
         IN  messages[i].tokens[field] + SumOver(group \ {i}, field)

ModelStrings == {<<model[1], "/", model[2]>> : model \in TokenModels}

RowsOfModel(model) == {k \in 1..Len(result.rows) : result.rows[k].model = model}

\* C20: the rows are the groups, by "providerID/modelID", of the assistant
\* messages of the main session and the named background sessions, every
\* session counted once however often it is named; each count of a row is
\* the sum over its group and total is the sum of the five counts.
C20_TokenUsage ==
    pc = "derived" =>
        /\ \A k \in 1..Len(result.rows) : result.rows[k].model \in ModelStrings
        /\ \A model \in ModelStrings :
              /\ Cardinality(RowsOfModel(model)) = (IF GroupOf(model) = {} THEN 0 ELSE 1)
              /\ \A k \in RowsOfModel(model) :
                    /\ result.rows[k].input = SumOver(GroupOf(model), "input")
                    /\ result.rows[k].output = SumOver(GroupOf(model), "output")
                    /\ result.rows[k].reasoning = SumOver(GroupOf(model), "reasoning")
                    /\ result.rows[k].cacheRead = SumOver(GroupOf(model), "cacheRead")
                    /\ result.rows[k].cacheWrite = SumOver(GroupOf(model), "cacheWrite")
                    /\ result.rows[k].total =
                           result.rows[k].input + result.rows[k].output
                             + result.rows[k].reasoning + result.rows[k].cacheRead
                             + result.rows[k].cacheWrite

\* the main session named again among the background ids, a background
\* session named twice, a user message with tokens, and a row
C20_Witness ==
    /\ pc = "derived"
    /\ call.mainSessionId # NoText
    /\ \/ call.mainSessionId \in Range(call.backgroundSessionIds)
       \/ \E i, j \in DOMAIN call.backgroundSessionIds :
             /\ i # j
             /\ call.backgroundSessionIds[i] # NoText
             /\ call.backgroundSessionIds[j] # NoText
             /\ trim(call.backgroundSessionIds[i]) = trim(call.backgroundSessionIds[j])
    /\ \E m \in Range(messages) : m.role = "user" /\ m.sessionID \in NamedSessions
    /\ \E k \in 1..Len(result.rows) : result.rows[k].total > 0

-----------------------------------------------------------------------------
(* Tool call rows of one session, around the two caps *)

\* messages of a small store
MaxCallMessages == 2

\* messages beyond the message cap, tool calls beyond the call cap
MaxOverMessages == 1

MaxOverCalls == 1

\* message number i of the session, written at 1000 + i; a junk message has
\* a payload that does not parse
CallMessage(i, junk) ==
    [StoredMessage(i, MainId, "done", 1000 + i) EXCEPT !.json = ~junk]

\* count tool parts of message i
CallParts(i, count, status) ==
    [k \in 1..count |-> StoredPart(i * 1000 + k, i, status)]

\* a few messages, any of them junk, each with up to two parts
InitCallsFew ==
    /\ \E n \in 0..MaxCallMessages :
          \E junk \in [1..n -> BOOLEAN], count \in [1..n -> 0..2],
             status \in [1..n -> {"running", "completed", "weird"}] :
             /\ messages = [i \in 1..n |-> CallMessage(i, junk[i])]
             /\ parts = Flatten([i \in 1..n |-> CallParts(i, count[i], status[i])])

\* as many messages as the cap, one fewer, or more; the newest ones junk or
\* not; tool parts on the oldest and on the newest message
InitCallsManyMessages ==
    /\ \E n \in (MAX_TOOL_CALL_MESSAGES - 1)..(MAX_TOOL_CALL_MESSAGES + MaxOverMessages),
          junk \in {0, 1, MAX_TOOL_CALL_MESSAGES} :
          /\ messages = [i \in 1..n |-> CallMessage(i, i > n - junk)]
          /\ parts = CallParts(1, 1, "completed") \o CallParts(n, 1, "running")

\* two messages that together carry as many tool parts as the cap, or more
InitCallsManyParts ==
    /\ messages = <<CallMessage(1, FALSE), CallMessage(2, FALSE)>>
    /\ \E over \in 0..MaxOverCalls :
          parts = CallParts(1, MAX_TOOL_CALLS \div 2, "completed")
                    \o CallParts(2, MAX_TOOL_CALLS \div 2 + over, "completed")

NoCalls == [toolCalls |-> NoRows]

InitCalls ==
    /\ InitCallsFew \/ InitCallsManyMessages \/ InitCallsManyParts
    /\ \E row \in BOOLEAN :
          sessions = IF row THEN <<StoredSession(MainId, "main", 10)>> ELSE <<>>
    /\ nowMs = 5000
    /\ fsys = <<>>
    /\ call = [sessionId |-> MainId]
    /\ result = NoCalls
    /\ pc = "stored"

DeriveToolCallsSqlite ==
    /\ pc = "stored"
    /\ result' = deriveToolCallsSqlite(sessions, messages, parts, call.sessionId)
    /\ pc' = "derived"
    /\ UNCHANGED <<sessions, messages, parts, nowMs, fsys, call>>

NextCalls == DeriveToolCallsSqlite

SpecCalls == InitCalls /\ [][NextCalls]_vars

-----------------------------------------------------------------------------
(* Claims about tool call rows *)

\* a message record that sanitation accepts
AcceptedMessage(m) == m.json /\ m.role \in Roles

\* a tool-part record that sanitation accepts
AcceptedPart(p) ==
    /\ p.json
    /\ p.type = "tool"
    /\ p.callID # NoId
    /\ p.tool # NoStr
    /\ p.status \in ToolStatuses
    /\ p.hasInput

AcceptedOf(sessionId) ==
    {m \in Range(messages) : m.sessionID = sessionId /\ AcceptedMessage(m)}

\* m is one of the count newest accepted messages of its session
AmongNewest(m, count) ==
    Cardinality({o \in AcceptedOf(m.sessionID) :
                    \/ o.created > m.created
                    \/ (o.created = m.created /\ o.id > m.id)}) < count

\* the tool calls of the newest accepted messages, as many as the message cap
CallsOfNewest(sessionId) ==
    {i \in 1..Len(parts) :
        /\ AcceptedPart(parts[i])
        /\ \E m \in AcceptedOf(sessionId) :
              m.id = parts[i].messageID /\ AmongNewest(m, MAX_TOOL_CALL_MESSAGES)}

CallRowFields == {"sessionId", "messageId", "callId", "tool", "status", "createdAtMs"}

\* only the six fields, at most 300 rows of the 200 newest messages, newest first
CallRowsWithinCaps ==
    /\ \A k \in 1..Len(result.toolCalls) :
          /\ DOMAIN result.toolCalls[k] = CallRowFields
          /\ \E m \in AcceptedOf(call.sessionId) :
                /\ m.id = result.toolCalls[k].messageId
                /\ AmongNewest(m, MAX_TOOL_CALL_MESSAGES)
    /\ Len(result.toolCalls) <= MAX_TOOL_CALLS
    /\ \A k \in 1..(Len(result.toolCalls) - 1) :
          result.toolCalls[k].createdAtMs >= result.toolCalls[k + 1].createdAtMs

CapWasHit ==
    \/ Cardinality(AcceptedOf(call.sessionId)) >= MAX_TOOL_CALL_MESSAGES
    \/ Cardinality(CallsOfNewest(call.sessionId)) > MAX_TOOL_CALLS

TruncatedAsSpecified == result.truncated = CapWasHit

SessionExistsAsSpecified ==
    ~result.sessionExists =>
        /\ AcceptedOf(call.sessionId) = {}
        /\ \A i \in 1..Len(sessions) : sessions[i].id # call.sessionId

\* C21: the rows carry only sessionId, messageId, callId, tool, status and
\* createdAtMs, are at most 300, come from the 200 newest messages and are
\* ordered by createdAtMs descending; truncated is true when a cap was hit
\* and false when the session has fewer than 200 messages and at most 300
\* tool calls; sessionExists is false only when the session has neither
\* messages nor a session row.
C21_ToolCallRows ==
    pc = "derived" =>
        /\ CallRowsWithinCaps
        /\ TruncatedAsSpecified
        /\ SessionExistsAsSpecified

\* The same over stores in which every message record is accepted.
C21_ToolCallRowsOfCleanStore ==
    (pc = "derived" /\ \A m \in Range(messages) : AcceptedMessage(m)) =>
        /\ CallRowsWithinCaps
        /\ TruncatedAsSpecified
        /\ SessionExistsAsSpecified

\* The rows and their caps alone, over every store.
C21_RowsWithinCaps ==
    pc = "derived" => CallRowsWithinCaps

-----------------------------------------------------------------------------
(* The dashboard payload, built twice over the same store *)

\* readBoulderState: the .boulder state of the project, if there is one
NoBoulder == [plan_name |-> NoStr]

readBoulderState(fs) == fs.boulder

\* readPlanProgress: the check boxes of the active plan
readPlanProgress(fs, activePlan) == fs.plan

\* formatIso: "never" for no time and for 0, else the time in ISO 8601
formatIso(ts) ==
    IF ts = NoTime \/ ts = 0 THEN [never |-> TRUE, ms |-> 0]
    ELSE [never |-> FALSE, ms |-> ts]

\* planStatusPill
planStatusPill(progress) ==
    IF progress.missing THEN "not started"
    ELSE IF progress.isComplete THEN "complete" ELSE "in progress"

\* mainStatusPill
mainStatusPill(status) ==
    IF status = "running_tool" THEN "running tool"
    ELSE IF status = "busy" THEN "busy"
    ELSE IF status = "idle" THEN "idle"
    ELSE "unknown"

\* tasks.map(...): the fields of a task shown on the dashboard
PayloadTask(t) ==
    [id          |-> t.id,
     description |-> t.description,
     agent       |-> t.agent,
     status      |-> t.status,
     toolCalls   |-> IF t.toolCalls = NoTime THEN 0 ELSE t.toolCalls,
     lastTool    |-> IF t.lastTool = NoStr THEN "-" ELSE t.lastTool,
     timeline    |-> t.timeline]

NoMainView ==
    [agent |-> "unknown", currentTool |-> NoStr, lastUpdated |-> NoTime,
     sessionLabel |-> "(no session)", status |-> "unknown"]

\* the payload of the given view, plan and task rows
DashboardPayload(main, boulder, plan, tasks) ==
    LET shown ==
            [mainSession |->
                [agent            |-> main.agent,
                 currentTool      |-> IF main.currentTool = NoStr THEN "-"
                                      ELSE main.currentTool,
                 lastUpdatedLabel |-> formatIso(main.lastUpdated),
                 session          |-> main.sessionLabel,
                 statusPill       |-> mainStatusPill(main.status)],
             planProgress |->
                [name       |-> IF boulder = NoBoulder THEN "(no active plan)"
                                ELSE boulder.plan_name,
                 completed  |-> plan.completed,
                 total      |-> plan.total,
                 path       |-> IF boulder = NoBoulder THEN "" ELSE boulder.active_plan,
                 statusPill |-> planStatusPill(plan)],
             backgroundTasks |-> [i \in 1..Len(tasks) |-> PayloadTask(tasks[i])] \o <<>>]
    IN  shown @@ [raw |-> shown]

\* the title of the session among the main sessions of the project
SessionTitleOf(metas, sessionId) ==
    IF \E i \in 1..Len(metas) : metas[i].id = sessionId
    THEN metas[CHOOSE i \in 1..Len(metas) :
                   /\ metas[i].id = sessionId
                   /\ \A j \in 1..(i - 1) : metas[j].id # sessionId].title
    ELSE NoStr

\* buildDashboardPayload with the tasks derived at the given time
PayloadAt(fs, allSessions, allMessages, allParts, opts, now, tasksNow) ==
    LET boulder == readBoulderState(fs)
        plan    == IF boulder # NoBoulder THEN readPlanProgress(fs, boulder.active_plan)
                   ELSE [total |-> 0, completed |-> 0, isComplete |-> FALSE, missing |-> TRUE]
        Built(sessionId) ==
            IF sessionId = NoId
            THEN DashboardPayload(NoMainView, boulder, plan, <<>>)
            ELSE DashboardPayload(
                     getMainSessionView(allMessages, allParts, sessionId,
                         SessionTitleOf(readMainSessionMetas(allSessions, opts.projectRoot),
                                        sessionId),
                         now),
                     boulder, plan,
                     deriveBackgroundTasks(allSessions, allMessages, allParts, sessionId,
                                           tasksNow))
    IN  Built(pickActiveSessionId(allSessions, allMessages, opts.projectRoot,
                                  IF boulder = NoBoulder THEN <<>> ELSE boulder.session_ids))

\* buildDashboardPayload of src/server/dashboard.ts at wall-clock time clock:
\* nowMs is opts.nowMs ?? Date.now(); deriveBackgroundTasks is called without
\* nowMs and takes Date.now() itself
buildDashboardPayload(fs, allSessions, allMessages, allParts, opts, clock) ==
    PayloadAt(fs, allSessions, allMessages, allParts, opts,
              IF opts.nowMs = NoTime THEN clock ELSE opts.nowMs,
              clock)

\* buildDashboardPayload of the build that passes nowMs on to
\* deriveBackgroundTasks
buildDashboardPayloadInjected(fs, allSessions, allMessages, allParts, opts, clock) ==
    PayloadAt(fs, allSessions, allMessages, allParts, opts,
              IF opts.nowMs = NoTime THEN clock ELSE opts.nowMs,
              IF opts.nowMs = NoTime THEN clock ELSE opts.nowMs)

\* plans of the project
PlanStates ==
    {[boulder |-> NoBoulder,
      plan    |-> [total |-> 0, completed |-> 0, isComplete |-> FALSE, missing |-> TRUE]],
     [boulder |-> [plan_name |-> "plan", active_plan |-> "plans/plan.md",
                   session_ids |-> <<MainId>>],
      plan    |-> [total |-> 2, completed |-> 1, isComplete |-> FALSE, missing |-> FALSE]],
     [boulder |-> [plan_name |-> "plan", active_plan |-> "plans/plan.md",
                   session_ids |-> <<MainId + 5>>],
      plan    |-> [total |-> 2, completed |-> 2, isComplete |-> TRUE, missing |-> FALSE]]}

\* the wall clock at the two calls
PayloadClocks == TaskNows \cup {ChildUpdatedAt + RunningMs + 60000}

NoPayload == [raw |-> NoStr]

\* a main session that delegated "scan" in the background zero or more
\* times, its child and the child's messages; nowMs is the injected time
MaxPayloadTasks == 1

InitPayload ==
    /\ \E title \in {<<"Background: ", "scan">>, <<"other">>} :
          sessions = <<[ChildSession(MainId, NoId, 10, <<"main">>) EXCEPT !.title = "main"],
                       ChildSession(ChildId, MainId, StartedAt, title)>>
    /\ \E times \in ChildMessageTimes, childTools \in 0..1 :
          /\ messages = TaskMessages(times)
          /\ \E n \in 0..MaxPayloadTasks :
                parts = TaskParts([i \in 1..n |->
                                      CHOOSE g \in SyncShapes :
                                         g.resume = NoId /\ g.run_in_background = "true"],
                                  childTools)
    /\ nowMs \in TaskNows
    /\ fsys \in PlanStates
    /\ \E first \in PayloadClocks, second \in PayloadClocks, injected \in BOOLEAN :
          /\ first <= second
          /\ call = [projectRoot |-> ProjectRoot,
                     nowMs  |-> IF injected THEN nowMs ELSE NoTime,
                     clocks |-> <<first, second>>]
    /\ result = [first |-> NoPayload, second |-> NoPayload,
                 firstInjected |-> NoPayload, secondInjected |-> NoPayload]
    /\ pc = "stored"

\* the first call, by either build
BuildDashboardPayload ==
    /\ pc = "stored"
    /\ result' = [result EXCEPT
          !.first = buildDashboardPayload(fsys, sessions, messages, parts, call,
                                          call.clocks[1]),
          !.firstInjected = buildDashboardPayloadInjected(fsys, sessions, messages, parts,
                                                          call, call.clocks[1])]
    /\ pc' = "built"
    /\ UNCHANGED <<sessions, messages, parts, nowMs, fsys, call>>

\* the second call over the same store, later
BuildDashboardPayloadAgain ==
    /\ pc = "built"
    /\ result' = [result EXCEPT
          !.second = buildDashboardPayload(fsys, sessions, messages, parts, call,
                                           call.clocks[2]),
          !.secondInjected = buildDashboardPayloadInjected(fsys, sessions, messages, parts,
                                                           call, call.clocks[2])]
    /\ pc' = "built_twice"
    /\ UNCHANGED <<sessions, messages, parts, nowMs, fsys, call>>

NextPayload == BuildDashboardPayload \/ BuildDashboardPayloadAgain

SpecPayload == InitPayload /\ [][NextPayload]_vars

-----------------------------------------------------------------------------
(* Claims about determinism *)

\* C22: two calls of buildDashboardPayload over the same store with the same
\* injected nowMs give the same payload, whatever the wall clock at each call.
C22_PayloadDeterministic ==
    (pc = "built_twice" /\ call.nowMs # NoTime) => result.first = result.second

\* The same for the build that passes nowMs on to deriveBackgroundTasks.
C22_PayloadDeterministicInjected ==
    (pc = "built_twice" /\ call.nowMs # NoTime) =>
        result.firstInjected = result.secondInjected

\* The same for everything of the payload but the background tasks.
C22_MainAndPlanDeterministic ==
    (pc = "built_twice" /\ call.nowMs # NoTime) =>
        /\ result.first.mainSession = result.second.mainSession
        /\ result.first.planProgress = result.second.planProgress

-----------------------------------------------------------------------------
(* The list of main sessions, by either backend *)

\* sessions in storage
MaxListSessions == 2

\* "/repo-link" is a symbolic link to "/repo"
ListDirectories == {"/repo", "/repo-link", "/other"}

ListSession(id, parentID, directory, updated) ==
    [ChildSession(id, parentID, 10, <<"session">>) EXCEPT
        !.directory = directory, !.updated = updated]

NoList == <<[id |-> NoId]>>

\* the sessions in the order storage enumerates them: any ids, with or
\* without a parent, in any of the directories, updated at one of two times
InitList ==
    /\ \E n \in 0..MaxListSessions :
          \E id \in {f \in [1..n -> 1..n] : \A i, j \in 1..n : i # j => f[i] # f[j]},
             child \in [1..n -> BOOLEAN],
             directory \in [1..n -> ListDirectories],
             updated \in [1..n -> UpdatedTimes] :
             sessions = [i \in 1..n |->
                            ListSession(id[i], IF child[i] THEN n + 1 ELSE NoId,
                                        directory[i], updated[i])]
    /\ messages = <<>>
    /\ parts = <<>>
    /\ nowMs = 0
    /\ fsys = <<>>
    /\ \E filter \in {NoStr, "/repo", "/repo-link"} : call = [directoryFilter |-> filter]
    /\ result = [files |-> NoList, sqlite |-> NoList]
    /\ pc = "stored"

ReadMainSessionMetas ==
    /\ pc = "stored"
    /\ result' = [result EXCEPT !.files = readMainSessionMetas(sessions, call.directoryFilter)]
    /\ pc' = "files_listed"
    /\ UNCHANGED <<sessions, messages, parts, nowMs, fsys, call>>

ReadMainSessionMetasSqlite ==
    /\ pc = "files_listed"
    /\ result' = [result EXCEPT
                     !.sqlite = readMainSessionMetasSqlite(sessions, call.directoryFilter)]
    /\ pc' = "listed"
    /\ UNCHANGED <<sessions, messages, parts, nowMs, fsys, call>>

NextList == ReadMainSessionMetas \/ ReadMainSessionMetasSqlite

SpecList == InitList /\ [][NextList]_vars

-----------------------------------------------------------------------------
(* Claims about the list of main sessions *)

\* the sessions without parent whose directory is, once links are resolved,
\* the one the filter names
ListedSessions ==
    {m \in Range(sessions) :
        /\ m.parentID = NoId
        /\ (call.directoryFilter # NoStr =>
               RealDirectory(m.directory) = RealDirectory(call.directoryFilter))}

\* a is listed before b: updated later, or at the same time with the larger id
ListedBefore(a, b) == a.updated > b.updated \/ (a.updated = b.updated /\ a.id > b.id)

ListedAsSpecified(list) ==
    /\ Len(list) = Cardinality(ListedSessions)
    /\ \A k \in 1..Len(list) :
          /\ list[k] \in ListedSessions
          /\ Cardinality({o \in ListedSessions : ListedBefore(o, list[k])}) = k - 1

\* C23: both backends list exactly the sessions without parentID whose
\* directory matches the filter after symlink resolution, by time.updated
\* descending and then id descending, whatever the order of enumeration.
C23_ListMainSessions ==
    pc = "listed" => ListedAsSpecified(result.files) /\ ListedAsSpecified(result.sqlite)

\* The same of the sqlite backend alone.
C23_ListMainSessionsSqlite ==
    pc = "listed" => ListedAsSpecified(result.sqlite)

\* The files backend, when no two listed sessions were updated at the same
\* time and no directory is reached through a link.
C23_ListMainSessionsFilesPlain ==
    (/\ pc = "listed"
     /\ \A a, b \in ListedSessions : a # b => a.updated # b.updated
     /\ call.directoryFilter # "/repo-link"
     /\ \A m \in Range(sessions) : m.directory # "/repo-link") =>
        ListedAsSpecified(result.files)

-----------------------------------------------------------------------------
(* Sanitation: a store with records that fail the checks, and the same
   store without them *)

\* probe parts of a message
MaxProbes == 1

\* what can be wrong with a record
MessageDefects == {"none", "json", "role"}

PartDefects == {"none", "json", "type", "callID", "tool", "status", "input"}

\* a message with the given defect
DefectiveMessage(id, sessionID, created, defect) ==
    [StoredMessage(id, sessionID, "done", created) EXCEPT
        !.json = (defect # "json"),
        !.role = IF defect = "role" THEN "system" ELSE @]

\* a tool part of the given message, tool and status, with the given defect
DefectivePart(slot, messageID, tool, status, defect) ==
    [StoredPart(slot, messageID, status) EXCEPT
        !.tool     = IF defect = "tool" THEN NoStr ELSE tool,
        !.json     = (defect # "json"),
        !.type     = IF defect = "type" THEN "text" ELSE @,
        !.callID   = IF defect = "callID" THEN NoId ELSE @,
        !.status   = IF defect = "status" THEN "weird" ELSE @,
        !.hasInput = (defect # "input")]

\* the store without the records that sanitation rejects
PurgedMessages(allMessages) ==
    SelectSeq(allMessages, LAMBDA m : m.json /\ m.role \in Roles)

PurgedParts(allParts) ==
    SelectSeq(allParts, LAMBDA p :
        /\ p.json
        /\ p.type = "tool"
        /\ p.callID # NoId
        /\ p.tool # NoStr
        /\ p.status \in ToolStatuses
        /\ p.hasInput)

\* what the derivations of each backend make of a store
SanitizedOutputs(allMessages, allParts) ==
    [files  |-> [view  |-> getMainSessionView(allMessages, allParts, MainId, NoStr, nowMs),
                 tasks |-> deriveBackgroundTasks(sessions, allMessages, allParts,
                                                 MainId, nowMs)],
     sqlite |-> [view  |-> getMainSessionViewSqlite(allMessages, allParts, MainId,
                                                    NoStr, nowMs),
                 tasks |-> deriveBackgroundTasksSqlite(sessions, allMessages, allParts,
                                                       MainId, nowMs),
                 toolCalls |-> deriveToolCallsSqlite(sessions, allMessages, allParts,
                                                     ChildId)]]

NoSanitized == [files |-> NoOutputs, sqlite |-> NoOutputs]

\* the main session delegated "scan" to its child; each has one good message
\* and perhaps a newer one, good or defective; the good messages carry probe
\* parts: the main one's are running "bash", the child's completed "read"
InitSanitize ==
    /\ sessions = <<ChildSession(MainId, NoId, 10, <<"main">>),
                    ChildSession(ChildId, MainId, StartedAt, <<"Background: ", "scan">>)>>
    /\ \E mainExtra \in MessageDefects \cup {"absent"},
          childExtra \in MessageDefects \cup {"absent"} :
          messages =
              <<StoredMessage(MainId, MainId, "done", StartedAt),
                StoredMessage(ChildId, ChildId, "done", ChildUpdatedAt)>>
              \o (IF mainExtra = "absent" THEN <<>>
                  ELSE <<DefectiveMessage(ChildId + 1, MainId, StartedAt + 1, mainExtra)>>)
              \o (IF childExtra = "absent" THEN <<>>
                  ELSE <<DefectiveMessage(ChildId + 2, ChildId, ChildUpdatedAt + 1,
                                          childExtra)>>)
    /\ \E n \in 0..MaxProbes, k \in 0..MaxProbes :
          \E mainDefect \in [1..n -> PartDefects], childDefect \in [1..k -> PartDefects] :
             parts =
                 <<TaskPart(1, CHOOSE g \in SyncShapes :
                                   g.resume = NoId /\ g.run_in_background = "true")>>
                 \o [i \in 1..n |->
                        DefectivePart(1 + i, MainId, "bash", "running", mainDefect[i])]
                 \o [i \in 1..k |->
                        DefectivePart(1 + n + i, ChildId, "read", "completed",
                                      childDefect[i])]
    /\ nowMs \in {ChildUpdatedAt + RunningMs, ChildUpdatedAt + RunningMs + 2}
    /\ fsys = <<>>
    /\ call = [mainSessionId |-> MainId]
    /\ result = [stored |-> NoSanitized, purged |-> NoSanitized]
    /\ pc = "stored"

DeriveOfStore ==
    /\ pc = "stored"
    /\ result' = [result EXCEPT !.stored = SanitizedOutputs(messages, parts)]
    /\ pc' = "derived"
    /\ UNCHANGED <<sessions, messages, parts, nowMs, fsys, call>>

DeriveOfPurgedStore ==
    /\ pc = "derived"
    /\ result' = [result EXCEPT
                     !.purged = SanitizedOutputs(PurgedMessages(messages), PurgedParts(parts))]
    /\ pc' = "purged_derived"
    /\ UNCHANGED <<sessions, messages, parts, nowMs, fsys, call>>

NextSanitize == DeriveOfStore \/ DeriveOfPurgedStore

SpecSanitize == InitSanitize /\ [][NextSanitize]_vars

-----------------------------------------------------------------------------
(* Claims about sanitation *)

\* C24: in both backends the records that fail the checks (a message whose
\* role is not user or assistant, a part that is not a tool part with callID,
\* tool, a known status and an input object, a record that does not parse)
\* are dropped: the main session view and the background task rows,
\* currentTool, toolCalls and lastTool among them, are those of the store
\* without these records.
C24_RejectedRecordsDropped ==
    pc = "purged_derived" => result.stored = result.purged

\* The same of the sqlite backend alone.
C24_RejectedRecordsDroppedSqlite ==
    pc = "purged_derived" => result.stored.sqlite = result.purged.sqlite

\* The files backend, of records that do not parse.
C24_UnparseableDroppedFiles ==
    (/\ pc = "purged_derived"
     /\ \A m \in Range(messages) : m.json => m.role \in Roles
     /\ \A p \in Range(parts) : p.json => p \in Range(PurgedParts(parts))) =>
        result.stored.files = result.purged.files

-----------------------------------------------------------------------------
(* The read-only connections of the sqlite readers *)

MaxReaderCalls == 2

SqliteReaders ==
    {"readMainSessionMetasSqlite", "readAllSessionMetasSqlite", "readSessionExistsSqlite",
     "readRecentMessageMetasSqlite", "readToolPartsForMessagesSqlite", "readTodosSqlite",
     "isSqliteUsable"}

SqliteReadFailureReasons == {"db_busy", "db_corrupt", "db_unopenable", "db_query_failed"}

\* what the driver throws: Error messages, and NoText for a thrown value that
\* is not an Error
ThrownMessages ==
    {<<"database is locked">>,
     <<"SQLITE_", "BUSY">>,
     <<"database disk image is malformed">>,
     <<"file is ", "not a database">>,
     <<"SQLITE_", "CORRUPT">>,
     <<"unable to open database file">>,
     <<"cannot open", " file">>,
     <<"no such table", ": todo">>,
     <<"disk I/O error">>,
     NoText}

classifySqliteError(error) ==
    LET message == IF error = NoText THEN <<>> ELSE toLowerCase(error)
    IN  IF includes(message, <<"database is locked">>) \/ includes(message, <<"busy">>)
            THEN "db_busy"
        ELSE IF \/ includes(message, <<"database disk image is malformed">>)
                \/ includes(message, <<"not a database">>)
                \/ includes(message, <<"corrupt">>)
            THEN "db_corrupt"
        ELSE IF \/ includes(message, <<"unable to open database file">>)
                \/ includes(message, <<"cannot open">>)
            THEN "db_unopenable"
        ELSE "db_query_failed"

\* finally { db?.close() } with nothing closed
closeDbNever(open, db) == open

\* finally { try { db?.close() } catch {} }
closeDb(open, db) == IF db = NoId THEN open ELSE open \ {db}

NoFrame == [reader |-> NoStr, db |-> NoId, thrown |-> NoText, cause |-> NoStr,
            ok |-> FALSE, reason |-> NoStr]

\* what a reader returned; cause and db tell what happened inside the call
ReaderResult(frame) ==
    [reader |-> frame.reader, ok |-> frame.ok, reason |-> frame.reason,
     cause |-> frame.cause, db |-> frame.db]

InitReaders ==
    /\ sessions = <<>>
    /\ messages = <<>>
    /\ parts = <<>>
    /\ nowMs = 0
    /\ fsys = [open |-> {}, opened |-> 0]
    /\ call = NoFrame
    /\ result = <<>>
    /\ pc = "idle"

\* a reader is called and enters withReadonlyDb (isSqliteUsable: its own try)
CallReader ==
    /\ pc = "idle"
    /\ Len(result) < MaxReaderCalls
    /\ \E reader \in SqliteReaders : call' = [NoFrame EXCEPT !.reader = reader]
    /\ pc' = "try"
    /\ UNCHANGED <<sessions, messages, parts, nowMs, fsys, result>>

\* the returns that come before any connection: no message ids to read parts
\* of, no database file to probe
ReturnWithoutDb ==
    /\ pc = "try"
    /\ call.reader \in {"readToolPartsForMessagesSqlite", "isSqliteUsable"}
    /\ result' = Append(result,
                        ReaderResult([call EXCEPT
                            !.ok = (call.reader = "readToolPartsForMessagesSqlite"),
                            !.cause = "no_db_needed"]))
    /\ call' = NoFrame
    /\ pc' = "idle"
    /\ UNCHANGED <<sessions, messages, parts, nowMs, fsys>>

\* db = new BunDatabase(sqlitePath, { readonly: true })
OpenDb ==
    /\ pc = "try"
    /\ \/ /\ fsys' = [open |-> fsys.open \cup {fsys.opened + 1},
                      opened |-> fsys.opened + 1]
          /\ call' = [call EXCEPT !.db = fsys.opened + 1]
          /\ pc' = "fn"
       \/ /\ \E error \in ThrownMessages :
                call' = [call EXCEPT !.thrown = error, !.cause = "open_failed"]
          /\ pc' = "catch"
          /\ UNCHANGED fsys
    /\ UNCHANGED <<sessions, messages, parts, nowMs, result>>

\* fn(db): the query; readTodosSqlite answers a missing todo table with no
\* rows; isSqliteUsable also looks for the three tables among the rows
RunQuery ==
    /\ pc = "fn"
    /\ \/ /\ \E tables \in BOOLEAN :
                call' = [call EXCEPT
                            !.ok = (call.reader = "isSqliteUsable" => tables),
                            !.cause = "queried"]
          /\ pc' = "finally"
       \/ /\ \E error \in ThrownMessages :
                IF /\ call.reader = "readTodosSqlite"
                   /\ error # NoText
                   /\ includes(toLowerCase(error), <<"no such table">>)
                THEN /\ call' = [call EXCEPT !.ok = TRUE, !.cause = "queried"]
                     /\ pc' = "finally"
                ELSE /\ call' = [call EXCEPT !.thrown = error, !.cause = "query_failed"]
                     /\ pc' = "catch"
    /\ UNCHANGED <<sessions, messages, parts, nowMs, fsys, result>>

\* catch (error) { return { ok: false, reason: classifySqliteError(error) } };
\* isSqliteUsable: catch { return false }
CatchError ==
    /\ pc = "catch"
    /\ call' = [call EXCEPT
                   !.ok = FALSE,
                   !.reason = IF call.reader = "isSqliteUsable" THEN NoStr
                              ELSE classifySqliteError(call.thrown)]
    /\ pc' = "finally"
    /\ UNCHANGED <<sessions, messages, parts, nowMs, fsys, result>>

\* finally: the connection is closed, then the value is handed back
CloseDb ==
    /\ pc = "finally"
    /\ fsys' = [fsys EXCEPT !.open = closeDb(fsys.open, call.db)]
    /\ pc' = "return"
    /\ UNCHANGED <<sessions, messages, parts, nowMs, call, result>>

\* if (!result.ok) return result; the rows are mapped, none of the mapping
\* steps throws; the reader returns
ReturnRows ==
    /\ pc = "return"
    /\ result' = Append(result, ReaderResult(call))
    /\ call' = NoFrame
    /\ pc' = "idle"
    /\ UNCHANGED <<sessions, messages, parts, nowMs, fsys>>

NextReaders == CallReader \/ ReturnWithoutDb \/ OpenDb \/ RunQuery \/ CatchError
               \/ CloseDb \/ ReturnRows

SpecReaders == InitReaders /\ [][NextReaders]_vars

\* a call that has begun runs to its return
FairSpecReaders ==
    SpecReaders /\ WF_vars(ReturnWithoutDb \/ OpenDb \/ RunQuery \/ CatchError
                           \/ CloseDb \/ ReturnRows)

-----------------------------------------------------------------------------
(* Claims about the connections *)

\* C25: every sqlite reader call opens its own read-only connection and has
\* closed it by the time it returns, whether the open failed, the query failed
\* or the call succeeded: between calls and while the rows are mapped no
\* connection is open, no two calls share a connection, and a failed call has
\* returned ok: false with one of the four reasons.
C25_ConnectionsClosed ==
    /\ pc \in {"idle", "return"} => fsys.open = {}
    /\ fsys.open \subseteq {call.db} \ {NoId}
    /\ \A i \in 1..Len(result) :
          /\ result[i].cause \in {"open_failed", "query_failed"} =>
                /\ ~result[i].ok
                /\ result[i].reader # "isSqliteUsable" =>
                      result[i].reason \in SqliteReadFailureReasons
          /\ result[i].cause = "queried" => result[i].db # NoId
          /\ \A j \in 1..Len(result) :
                (i # j /\ result[i].db # NoId) => result[i].db # result[j].db

\* A connection that was opened is closed.
C25_OpenedIsClosed == \A db \in 1..MaxReaderCalls : (db \in fsys.open) ~> (db \notin fsys.open)

\* two calls have returned, one that failed in its query after opening a
\* connection and one that succeeded
C25_Witness ==
    /\ pc = "idle"
    /\ Len(result) = 2
    /\ result[1].cause = "query_failed" /\ result[1].db # NoId
    /\ result[1].reason = "db_corrupt"
    /\ result[2].cause = "queried" /\ result[2].ok

-----------------------------------------------------------------------------
(* GET /tool-calls/:sessionId *)

\* messages of the store behind the route
MaxRouteMessages == 1

SESSION_ID_MAX == 128

\* [A-Za-z0-9_-]
SessionIdChars ==
    {"a", "b", "c", "d", "e", "f", "g", "h", "i", "j", "k", "l", "m", "n", "o", "p", "q",
     "r", "s", "t", "u", "v", "w", "x", "y", "z",
     "A", "B", "C", "D", "E", "F", "G", "H", "I", "J", "K", "L", "M", "N", "O", "P", "Q",
     "R", "S", "T", "U", "V", "W", "X", "Y", "Z",
     "0", "1", "2", "3", "4", "5", "6", "7", "8", "9", "_", "-"}

\* SESSION_ID_PATTERN.test(sessionId), /^[A-Za-z0-9_-]{1,128}$/
TestSessionIdPattern(text) ==
    /\ Len(text) >= 1
    /\ Len(text) <= SESSION_ID_MAX
    /\ \A i \in 1..Len(text) : text[i] \in SessionIdChars

\* the id of the stored session
StoredSessionText == <<"s", "e", "s", "_", "1">>

\* the :sessionId parameters requested, character by character
RequestedSessionIds ==
    {StoredSessionText,
     <<"s", "e", "s", "_", "m", "i", "s", "s", "i", "n", "g">>,
     <<"n", "o", "t", "_", "v", "a", "l", "i", "d", "!">>,
     <<".", ".">>,
     <<"s", "e", "s", "_", "1", "\n">>,
     [i \in 1..SESSION_ID_MAX |-> "a"],
     [i \in 1..(SESSION_ID_MAX + 1) |-> "a"]}

\* the session a parameter names in the store: the stored one, or one that
\* is not there
SessionOfText(text) == IF text = StoredSessionText THEN MainId ELSE MainId + 8

RouteCaps == [maxMessages |-> MAX_TOOL_CALL_MESSAGES, maxToolCalls |-> MAX_TOOL_CALLS]

\* c.json({ ok: false, sessionId, toolCalls: [] }, status)
RouteRefusal(status, text, read) ==
    [status |-> status, read |-> read,
     body |-> [ok |-> FALSE, sessionId |-> text, toolCalls |-> <<>>]]

\* c.json({ ok: true, sessionId, toolCalls, caps, truncated })
RouteAnswer(text, derived, read) ==
    [status |-> 200, read |-> read,
     body |-> [ok |-> TRUE, sessionId |-> text, toolCalls |-> derived.toolCalls,
               caps |-> RouteCaps, truncated |-> derived.truncated]]

\* the files branch of the route
toolCallsFromFiles(text, allMessages, allParts, read) ==
    IF getMessageDir(allMessages, SessionOfText(text)) = NoId
    THEN RouteRefusal(404, text, read \cup {"files"})
    ELSE RouteAnswer(text, deriveToolCalls(allMessages, allParts, SessionOfText(text)),
                     read \cup {"files"})

\* the route with a failed sqlite read answered as an error
toolCallsRouteStrict(text, backend, failure, allSessions, allMessages, allParts) ==
    IF ~TestSessionIdPattern(text) THEN RouteRefusal(400, text, {})
    ELSE IF backend = "sqlite" /\ failure # NoStr
    THEN RouteRefusal(500, text, {"sqlite"})
    ELSE IF backend = "sqlite"
    THEN LET value == deriveToolCallsSqlite(allSessions, allMessages, allParts,
                                            SessionOfText(text))
         IN  IF ~value.sessionExists THEN RouteRefusal(404, text, {"sqlite"})
             ELSE RouteAnswer(text, value, {"sqlite"})
    ELSE toolCallsFromFiles(text, allMessages, allParts, {})

\* api.get("/tool-calls/:sessionId", ...): the response, and the stores read
\* for it; failure is the reason of a failed sqlite read, NoStr when it works
toolCallsRoute(text, backend, failure, allSessions, allMessages, allParts) ==
    IF ~TestSessionIdPattern(text) THEN RouteRefusal(400, text, {})
    ELSE IF backend = "sqlite" /\ failure = NoStr
    THEN LET value == deriveToolCallsSqlite(allSessions, allMessages, allParts,
                                            SessionOfText(text))
         IN  IF ~value.sessionExists THEN RouteRefusal(404, text, {"sqlite"})
             ELSE RouteAnswer(text, value, {"sqlite"})
    ELSE toolCallsFromFiles(text, allMessages, allParts,
                            IF backend = "sqlite" THEN {"sqlite"} ELSE {})

NoResponse == [status |-> 0, read |-> {}, body |-> [ok |-> FALSE]]

\* a store of one session with a few messages, any of them junk, each with up
\* to two parts; the backend selected at start and what its reads do now
InitRoute ==
    /\ \E n \in 0..MaxRouteMessages :
          \E junk \in [1..n -> BOOLEAN], count \in [1..n -> 0..2],
             status \in [1..n -> {"running", "completed", "weird"}] :
             /\ messages = [i \in 1..n |-> CallMessage(i, junk[i])]
             /\ parts = Flatten([i \in 1..n |-> CallParts(i, count[i], status[i])])
    /\ \E row \in BOOLEAN :
          sessions = IF row THEN <<StoredSession(MainId, "main", 10)>> ELSE <<>>
    /\ nowMs = 5000
    /\ fsys = <<>>
    /\ \E text \in RequestedSessionIds, backend \in {"files", "sqlite"},
          failure \in SqliteReadFailureReasons \cup {NoStr} :
          /\ backend = "files" => failure = NoStr
          /\ call = [sessionId |-> text, backend |-> backend, failure |-> failure]
    /\ result = NoResponse
    /\ pc = "requested"

GetToolCalls ==
    /\ pc = "requested"
    /\ result' = toolCallsRoute(call.sessionId, call.backend, call.failure,
                                sessions, messages, parts)
    /\ pc' = "answered"
    /\ UNCHANGED <<sessions, messages, parts, nowMs, fsys, call>>

NextRoute == GetToolCalls

SpecRoute == InitRoute /\ [][NextRoute]_vars

-----------------------------------------------------------------------------
(* Claims about the route *)

C26_WitnessRefused ==
    /\ pc = "answered"
    /\ Len(call.sessionId) = SESSION_ID_MAX + 1
    /\ result.status = 400

-----------------------------------------------------------------------------
(* The stacked bar of one bucket *)

\* the tallest chart drawn
MaxChartHeight == 4

\* counts of one agent in a bucket; a negative one stands for the values the
\* function sanitizes to zero
CountInputs == {0 - 1, 0, 1, 2, 5}

ScaleInputs == {0, 1, 3, 100}

\* sisyphus, prometheus, atlas, other
SegmentTones == <<"teal", "red", "green", "sand">>

Max(a, b) == IF a >= b THEN a ELSE b

\* Math.round(num / den) of a quotient that is not negative
RoundQuotient(num, den) == (2 * num + den) \div (2 * den)

\* the loop over weights (lines 91-99): each non-zero height of the rounded
\* ones is reduced by its share of the excess, at most down to 1 px, until
\* the excess is used up
RECURSIVE ReduceByShare(_, _, _, _, _, _)
ReduceByShare(heights, rounded, k, totalWeight, excess, remainingExcess) ==
    IF k > Len(heights) THEN heights
    ELSE IF rounded[k] = 0
    THEN ReduceByShare(heights, rounded, k + 1, totalWeight, excess, remainingExcess)
    ELSE IF remainingExcess <= 0 THEN heights
    ELSE LET reduction == Min(Max(1, rounded[k] - 1),
                              RoundQuotient(rounded[k] * excess, totalWeight))
         IN  ReduceByShare([heights EXCEPT ![k] = @ - reduction], rounded, k + 1,
                           totalWeight, excess, remainingExcess - reduction)

\* the while loop (lines 103-112): one pixel at a time off the largest
\* segment above 1 px, the first of them in a tie, while the total is over
RECURSIVE TrimLargest(_, _, _)
TrimLargest(heights, rounded, chartHeight) ==
    LET above == {k \in 1..Len(heights) : rounded[k] > 0 /\ heights[k] > 1}
        largest == CHOOSE k \in above :
                       \A j \in above : \/ heights[k] > heights[j]
                                        \/ (heights[k] = heights[j] /\ k <= j)
    IN  IF SumSeq(heights) <= chartHeight \/ above = {} THEN heights
        ELSE TrimLargest([heights EXCEPT ![largest] = @ - 1], rounded, chartHeight)

\* the heights after rounding and the overflow reduction (lines 46-114)
roundedHeights(counts, scaleMax, chartHeight) ==
    LET sanitized == [k \in 1..Len(counts) |-> Max(0, counts[k])]
        rounded == [k \in 1..Len(counts) |->
                       IF sanitized[k] > 0
                       THEN Max(1, RoundQuotient(sanitized[k] * chartHeight, scaleMax))
                       ELSE 0]
        totalRounded == SumSeq(rounded)
    IN  IF totalRounded > chartHeight
        THEN TrimLargest(ReduceByShare(rounded, rounded, 1, totalRounded,
                                       totalRounded - chartHeight,
                                       totalRounded - chartHeight),
                         rounded, chartHeight)
        ELSE rounded

\* the segments from the bottom up (lines 116-160): y of a segment is
\* chartHeight less the heights up to and including its own
RECURSIVE BuildSegments(_, _, _)
BuildSegments(heights, k, currentY) ==
    IF k > Len(heights) THEN <<>>
    ELSE IF heights[k] > 0
    THEN <<[tone |-> SegmentTones[k], y |-> currentY - heights[k], height |-> heights[k]]>>
             \o BuildSegments(heights, k + 1, currentY - heights[k])
    ELSE BuildSegments(heights, k + 1, currentY)

computeStackedSegments(counts, scaleMax, chartHeight) ==
    IF chartHeight <= 0 \/ scaleMax <= 0 THEN <<>>
    ELSE IF SumSeq([k \in 1..Len(counts) |-> Max(0, counts[k])]) = 0 THEN <<>>
    ELSE BuildSegments(roundedHeights(counts, scaleMax, chartHeight), 1, chartHeight)

NoSegments == <<[tone |-> NoStr]>>

InitStacked ==
    /\ sessions = <<>>
    /\ messages = <<>>
    /\ parts = <<>>
    /\ nowMs = 0
    /\ fsys = <<>>
    /\ \E counts \in [1..4 -> CountInputs], scaleMax \in ScaleInputs,
          chartHeight \in 0..MaxChartHeight :
          call = [counts |-> counts, scaleMax |-> scaleMax, chartHeight |-> chartHeight]
    /\ result = NoSegments
    /\ pc = "counted"

ComputeStackedSegments ==
    /\ pc = "counted"
    /\ result' = computeStackedSegments(call.counts, call.scaleMax, call.chartHeight)
    /\ pc' = "drawn"
    /\ UNCHANGED <<sessions, messages, parts, nowMs, fsys, call>>

NextStacked == ComputeStackedSegments

SpecStacked == InitStacked /\ [][NextStacked]_vars

-----------------------------------------------------------------------------
(* Claims about the stacked bar *)

\* the index of a tone in the stacking order
ToneIndex(tone) == CHOOSE k \in 1..Len(SegmentTones) : SegmentTones[k] = tone

\* every segment is at least 1 px high, the tones come in the order teal,
\* red, green, sand, and each segment sits directly on the one before it,
\* the first on the bottom of the chart
SegmentsStacked ==
    /\ \A i \in 1..Len(result) :
          /\ result[i].height >= 1
          /\ result[i].tone \in Range(SegmentTones)
          /\ result[i].y =
                 (IF i = 1 THEN call.chartHeight ELSE result[i - 1].y) - result[i].height
    /\ \A i, j \in 1..Len(result) :
          i < j => ToneIndex(result[i].tone) < ToneIndex(result[j].tone)

\* the heights add up to no more than the chart's, and no segment starts
\* above its top
SegmentsWithinChart ==
    /\ SumSeq([i \in 1..Len(result) |-> result[i].height]) <= call.chartHeight
    /\ \A i \in 1..Len(result) : result[i].y >= 0

\* C27: for all counts, a positive scaleMax and a positive chartHeight, the
\* heights of the returned segments add up to at most chartHeight (no segment
\* has a negative y), every returned segment is at least 1 px high, and the
\* segments come in the order teal, red, green, sand, each directly on the
\* one before.
C27_StackedSegments ==
    (pc = "drawn" /\ call.scaleMax > 0 /\ call.chartHeight > 0) =>
        SegmentsStacked /\ SegmentsWithinChart

\* The order, the minimum height and the stacking alone.
C27_SegmentsStacked ==
    (pc = "drawn" /\ call.scaleMax > 0 /\ call.chartHeight > 0) => SegmentsStacked

\* The bound on the sum when the chart has a pixel for each agent counted.
C27_WithinChartWhenRoom ==
    (/\ pc = "drawn" /\ call.scaleMax > 0
     /\ call.chartHeight >= Cardinality({k \in 1..4 : call.counts[k] > 0})
     /\ call.chartHeight > 0) => SegmentsWithinChart

-----------------------------------------------------------------------------
(* The two finders side by side *)

NoFound == [files |-> NoId, sqlite |-> NoId]

\* the stored child sessions and the calls of the correlation claims
InitFinders ==
    /\ \E n \in 0..MaxChildSessions : \E shape \in [1..n -> ChildShapes] :
          sessions = [i \in 1..n |->
                        ChildSession(i, shape[i].parentID, shape[i].created, shape[i].title)]
    /\ messages = <<>>
    /\ parts = <<>>
    /\ nowMs = 0
    /\ fsys = <<>>
    /\ call \in CorrelationCalls
    /\ result = [background |-> NoFound, task |-> NoFound]
    /\ pc = "stored"

\* the first correlation of a row
FindBackgroundSessionIds ==
    /\ pc = "stored"
    /\ result' = [result EXCEPT !.background =
                     [files  |-> findBackgroundSessionId(
                                     [call EXCEPT !.allSessionMetas = sessions]),
                      sqlite |-> findBackgroundSessionIdSqlite(
                                     [call EXCEPT !.allSessionMetas = sessions])]]
    /\ pc' = "first_found"
    /\ UNCHANGED <<sessions, messages, parts, nowMs, fsys, call>>

\* the retry of a sync row
FindTaskSessionIds ==
    /\ pc = "first_found"
    /\ result' = [result EXCEPT !.task =
                     [files  |-> findTaskSessionId(
                                     [call EXCEPT !.allSessionMetas = sessions]),
                      sqlite |-> findTaskSessionIdSqlite(
                                     [call EXCEPT !.allSessionMetas = sessions])]]
    /\ pc' = "found"
    /\ UNCHANGED <<sessions, messages, parts, nowMs, fsys, call>>

NextFinders == FindBackgroundSessionIds \/ FindTaskSessionIds

SpecFinders == InitFinders /\ [][NextFinders]_vars

-----------------------------------------------------------------------------
(* Claims about the two finders *)

\* C28: findTaskSessionId returns the id findBackgroundSessionId returns, for
\* every store and call, in the files backend and in the sqlite backend; so
\* the retry of a sync row finds nothing when the first correlation found
\* nothing.
C28_FindersAgree ==
    pc = "found" =>
        /\ result.task.files = result.background.files
        /\ result.task.sqlite = result.background.sqlite
        /\ result.background.files = NoId => result.task.files = NoId
        /\ result.background.sqlite = NoId => result.task.sqlite = NoId

\* two children in the window, one titled in each of the two legacy formats,
\* the one titled "Background: " nearer to the start, and a session found
C28_Witness ==
    /\ pc = "found"
    /\ \E i, j \in 1..Len(sessions) :
          /\ sessions[i].title = <<"Task: ", "scan">>
          /\ sessions[j].title = <<"Background: ", "scan">>
          /\ sessions[i].parentID = ParentId /\ sessions[j].parentID = ParentId
          /\ sessions[i].created = StartedAt + WindowAfterMs
          /\ sessions[j].created = StartedAt + WindowBeforeMs
          /\ result.task.files = sessions[j].id
    /\ result.task.sqlite # NoId

-----------------------------------------------------------------------------
(* The recent messages of a session, read from sqlite with a limit *)

MaxRecentMessages == 3

MaxRecentLimit == 2

RecentCreatedTimes == {StartedAt, StartedAt + 1}

NoRecent == <<[id |-> NoId]>>

\* message rows 1..n, each of the main or the child session, written at one
\* of two times, sound or with a defect
InitRecent ==
    /\ sessions = <<>>
    /\ \E n \in 0..MaxRecentMessages :
          \E owner \in [1..n -> {MainId, ChildId}], created \in [1..n -> RecentCreatedTimes],
             defect \in [1..n -> MessageDefects] :
             messages = [i \in 1..n |->
                            DefectiveMessage(i, owner[i], created[i], defect[i])]
    /\ parts = <<>>
    /\ nowMs = 0
    /\ fsys = <<>>
    /\ \E limit \in 1..MaxRecentLimit : call = [sessionId |-> MainId, limit |-> limit]
    /\ result = NoRecent
    /\ pc = "stored"

ReadRecentMessageMetasSqlite ==
    /\ pc = "stored"
    /\ result' = readRecentMessageMetasSqlite(messages, call.sessionId, call.limit)
    /\ pc' = "read"
    /\ UNCHANGED <<sessions, messages, parts, nowMs, fsys, call>>

NextRecent == ReadRecentMessageMetasSqlite

SpecRecent == InitRecent /\ [][NextRecent]_vars

-----------------------------------------------------------------------------
(* Claims about the recent messages *)

\* the accepted messages of the session, newest first: created descending,
\* then id descending
NewestAccepted(sessionId) ==
    ArraySort(SelectSeq(MessagesOfSession(messages, sessionId), AcceptedMessage),
              LAMBDA a, b : \/ a.created > b.created
                            \/ (a.created = b.created /\ a.id > b.id))

\* the rows returned are accepted messages of the session, no more than the
\* limit, each once, newest first
RecentSortedAccepted ==
    /\ Len(result) <= call.limit
    /\ \A i \in 1..Len(result) :
          /\ result[i] \in Range(NewestAccepted(call.sessionId))
          /\ \A j \in 1..Len(result) :
                i < j => \/ result[i].created > result[j].created
                         \/ (/\ result[i].created = result[j].created
                             /\ result[i].id > result[j].id)

\* C29: readRecentMessageMetasSqlite(sessionId, limit) returns the limit
\* newest accepted messages of the session (all of them when there are fewer),
\* created descending, then id descending: a dropped row does not take the
\* place of an accepted message.
C29_RecentAccepted ==
    pc = "read" => result = Take(NewestAccepted(call.sessionId), call.limit)

\* The rows returned are accepted, sorted and within the limit.
C29_RecentSortedAccepted == pc = "read" => RecentSortedAccepted

\* The limit newest accepted messages, of a session whose rows are all accepted.
C29_RecentOfCleanRows ==
    (/\ pc = "read"
     /\ \A m \in Range(messages) : m.sessionID = call.sessionId => AcceptedMessage(m)) =>
        result = Take(NewestAccepted(call.sessionId), call.limit)

-----------------------------------------------------------------------------
(* The dashboard store: a cached payload, the watchers and the poll interval *)

\* changes an external writer makes to the watched files
MaxChanges == 2

\* milliseconds the clock advances
MaxElapsed == 3

\* getSnapshot calls followed
MaxSnapshots == 3

PollIntervals == {1, 2}

\* Date.now() at the creation of the store
CreatedAtMs == StartedAt

\* let cached: DashboardPayload | null = null
NoCached == [store |-> NoTime, builtAt |-> NoTime]

\* getSnapshot's condition with the dirty flag left out
mustRecomputeOnPollOnly(cached, dirty, now, lastComputedAt, pollIntervalMs) ==
    cached = NoCached \/ now - lastComputedAt > pollIntervalMs

\* !cached || dirty || now - lastComputedAt > pollIntervalMs
mustRecompute(cached, dirty, now, lastComputedAt, pollIntervalMs) ==
    cached = NoCached \/ dirty \/ now - lastComputedAt > pollIntervalMs

\* the closure of createDashboardStore
NewStore(pollIntervalMs, watch) ==
    [pollIntervalMs |-> pollIntervalMs, watch |-> watch,
     lastComputedAt |-> 0, dirty |-> TRUE, cached |-> NoCached]

\* what has happened, for the claims: the steps counted, the step of the last
\* notification delivered and of the last computation, the snapshots returned
NoHistory == [step |-> 0, notifiedAt |-> 0, computedAt |-> 0, snapshots |-> <<>>]

\* fsys: the watched files (their version) and the change events the
\* watchers have raised whose callbacks have not run yet
InitStore ==
    /\ sessions = <<>>
    /\ messages = <<>>
    /\ parts = <<>>
    /\ nowMs = CreatedAtMs
    /\ fsys = [version |-> 0, pending |-> 0]
    /\ \E pollIntervalMs \in PollIntervals, watch \in BOOLEAN :
          call = NewStore(pollIntervalMs, watch)
    /\ result = NoHistory
    /\ pc = "created"

\* an external writer changes a watched file; a watcher, when there is one,
\* raises an event
ChangeFiles ==
    /\ fsys.version < MaxChanges
    /\ fsys' = [version |-> fsys.version + 1,
                pending |-> IF call.watch THEN fsys.pending + 1 ELSE fsys.pending]
    /\ result' = [result EXCEPT !.step = @ + 1]
    /\ UNCHANGED <<sessions, messages, parts, nowMs, call, pc>>

\* the watcher's callback runs: markDirty
MarkDirty ==
    /\ fsys.pending > 0
    /\ fsys' = [fsys EXCEPT !.pending = @ - 1]
    /\ call' = [call EXCEPT !.dirty = TRUE]
    /\ result' = [result EXCEPT !.step = @ + 1, !.notifiedAt = result.step + 1]
    /\ UNCHANGED <<sessions, messages, parts, nowMs, pc>>

\* a millisecond passes
Tick ==
    /\ nowMs < CreatedAtMs + MaxElapsed
    /\ nowMs' = nowMs + 1
    /\ UNCHANGED <<sessions, messages, parts, fsys, call, result, pc>>

\* getSnapshot(): the payload is built from the files as they are now, or
\* the cached one is returned
GetSnapshot ==
    LET recompute == mustRecompute(call.cached, call.dirty, nowMs, call.lastComputedAt,
                                   call.pollIntervalMs)
        built     == [store |-> fsys.version, builtAt |-> nowMs]
        returned  == IF recompute THEN built ELSE call.cached
    IN  /\ Len(result.snapshots) < MaxSnapshots
        /\ call' = IF recompute
                   THEN [call EXCEPT !.cached = built, !.lastComputedAt = nowMs,
                                     !.dirty = FALSE]
                   ELSE call
        /\ result' = [step       |-> result.step + 1,
                      notifiedAt |-> result.notifiedAt,
                      computedAt |-> IF recompute THEN result.step + 1 ELSE result.computedAt,
                      snapshots  |-> Append(result.snapshots,
                          [payload    |-> returned,
                           recomputed |-> recompute,
                           before     |-> call.cached,
                           notified   |-> result.notifiedAt > result.computedAt,
                           elapsed    |-> nowMs - call.lastComputedAt,
                           calledAt   |-> nowMs])]
        /\ pc' = "served"
        /\ UNCHANGED <<sessions, messages, parts, nowMs, fsys>>

NextStore == ChangeFiles \/ MarkDirty \/ Tick \/ GetSnapshot

SpecStore == InitStore /\ [][NextStore]_vars

-----------------------------------------------------------------------------
(* Claims about the dashboard store *)

\* C30: under any interleaving of watcher notifications, clock ticks and
\* getSnapshot calls, getSnapshot recomputes the payload exactly when nothing
\* is cached, a notification arrived since the last computation or more than
\* pollIntervalMs passed since it, and otherwise returns the cached payload
\* unchanged; so every snapshot returned was computed after the latest
\* notification before the call and at most pollIntervalMs before the call,
\* and a notification that arrived stays marked until the next computation.
C30_SnapshotFresh ==
    /\ \A i \in 1..Len(result.snapshots) :
          LET snap == result.snapshots[i]
          IN  /\ snap.recomputed <=>
                     \/ snap.before = NoCached
                     \/ snap.notified
                     \/ snap.elapsed > call.pollIntervalMs
              /\ ~snap.recomputed => snap.payload = snap.before
              /\ snap.recomputed => snap.payload.builtAt = snap.calledAt
              /\ snap.calledAt - snap.payload.builtAt <= call.pollIntervalMs
    /\ pc = "served" /\ result.step = result.computedAt =>
          result.notifiedAt < result.computedAt
    /\ result.notifiedAt > result.computedAt => call.dirty
    /\ call.cached # NoCached /\ ~call.dirty /\ fsys.pending = 0 /\ call.watch =>
          call.cached.store = fsys.version

\* a snapshot is cached, a notification arrives, and the next getSnapshot
\* recomputes although the poll interval has not passed; a later one within
\* the interval returns the cached payload
C30_Witness ==
    /\ Len(result.snapshots) = 3
    /\ result.snapshots[2].recomputed
    /\ result.snapshots[2].notified
    /\ result.snapshots[2].before # NoCached
    /\ result.snapshots[2].elapsed <= call.pollIntervalMs
    /\ ~result.snapshots[3].recomputed
    /\ result.snapshots[3].payload = result.snapshots[2].payload

====
